-------------------------- MODULE HmmDetectorProofs --------------------------
(* Machine-checked proofs about the parts of an HMM detector, for every value  *)
(* of their constants: how much of a sample its quantile rejects; what         *)
(* training leaves behind, wherever a fit raises; what an extractor makes of a *)
(* flow, and the forward algorithm of all its windows at once; what an         *)
(* ensemble's verdict has to do with its members', and a sequence's score with *)
(* its windows'; and that a smoothed model's weights are a distribution.       *)
EXTENDS HmmDetector, FiniteSetsExt, FiniteSetTheorems, SequenceTheorems, WellFoundedInduction, TLAPS

------------------------------------------------------------------------------
(* Numbers, induction, and sums over finite sets.                              *)

(* Division with remainder.                                                    *)
LEMMA DivMod ==
  ASSUME NEW a \in Nat, NEW d \in Nat \ {0}
  PROVE  /\ a \div d \in Nat /\ a % d \in Nat
         /\ a = (a \div d) * d + (a % d)
         /\ a % d < d
OBVIOUS

(* A product with a non-negative factor grows with the other factor.           *)
LEMMA TimesMonotone ==
  ASSUME NEW a \in Int, NEW b \in Int, NEW d \in Nat, a <= b
  PROVE  a * d <= b * d
OBVIOUS

(* A product of integers is an integer.                                        *)
LEMMA TimesInt ==
  ASSUME NEW a \in Int, NEW b \in Int
  PROVE  a * b \in Int
OBVIOUS

(* A smaller summand keeps a sum within its bound.                             *)
LEMMA SumWithin ==
  ASSUME NEW a \in Int, NEW b \in Int, NEW c \in Int, NEW bound \in Int,
         b <= c, a + c = bound
  PROVE  a + b <= bound
OBVIOUS

(* Every non-empty set of naturals has a least element.                        *)
LEMMA LeastExists ==
  ASSUME NEW S \in SUBSET Nat, S # {}
  PROVE  \E n \in S : \A m \in S : n <= m
<1> DEFINE R == OpToRel(<, Nat)
<1>1. \A x, y \in Nat : x < y => <<x, y>> \in R
  BY DEF OpToRel
<1>2. IsWellFoundedOn(R, Nat)
  BY NatLessThanWellFounded
<1> HIDE DEF R
<1>3. PICK n \in S : \A m \in S : ~ (<<m, n>> \in R)
  BY <1>2, WFMin
<1>4. ASSUME NEW m \in S PROVE n <= m
  <2>1. ~ (m < n)
    BY <1>1, <1>3
  <2>2. m \in Nat /\ n \in Nat
    OBVIOUS
  <2>3. QED BY <2>1, <2>2
<1>5. QED BY <1>4

(* Induction, for a set of numbers.                                            *)
LEMMA NatSetInduction ==
  ASSUME NEW P \in SUBSET Nat, 0 \in P, \A n \in P : n + 1 \in P
  PROVE  P = Nat
<1> SUFFICES ASSUME Nat \ P # {} PROVE FALSE
  OBVIOUS
<1>1. PICK n \in Nat \ P : \A m \in Nat \ P : n <= m
  BY LeastExists
<1>2. n # 0 /\ n - 1 \in Nat
  BY <1>1
<1>3. n - 1 \in P
  BY <1>1, <1>2
<1>4. (n - 1) + 1 \in P
  BY <1>3
<1>5. QED BY <1>1, <1>4

(* The element a sum takes out of a set first.                                 *)
First(s) == CHOOSE x \in s : TRUE

(* Without its first element a finite set is smaller by one.                   *)
LEMMA Rest ==
  ASSUME NEW s, IsFiniteSet(s), s # {}
  PROVE  /\ First(s) \in s /\ IsFiniteSet(s \ {First(s)})
         /\ Cardinality(s \ {First(s)}) = Cardinality(s) - 1
         /\ Cardinality(s) \in Nat \ {0}
<1>1. First(s) \in s
  BY DEF First
<1>2. Cardinality(s) \in Nat /\ Cardinality(s) # 0
  BY FS_CardinalityType, FS_EmptySet
<1>3. QED BY <1>1, <1>2, FS_RemoveElement

(* Induction over the subsets of a finite set, in the order a sum takes them.  *)
LEMMA SubsetInduction ==
  ASSUME NEW S, IsFiniteSet(S), NEW P \in SUBSET (SUBSET S), {} \in P,
         \A s \in SUBSET S : s # {} /\ s \ {First(s)} \in P => s \in P
  PROVE  P = SUBSET S
<1> DEFINE N == {n \in Nat : \A s \in SUBSET S : Cardinality(s) <= n => s \in P}
<1>1. \A s \in SUBSET S : IsFiniteSet(s) /\ Cardinality(s) \in Nat
  BY FS_Subset, FS_CardinalityType
<1>2. 0 \in N
  <2> SUFFICES ASSUME NEW s \in SUBSET S, Cardinality(s) <= 0 PROVE s \in P
    OBVIOUS
  <2>1. Cardinality(s) = 0
    BY <1>1
  <2>2. s = {}
    BY <1>1, <2>1, FS_EmptySet
  <2>3. QED BY <2>2
<1>3. ASSUME NEW n \in N PROVE n + 1 \in N
  <2>1. n \in Nat /\ \A s \in SUBSET S : Cardinality(s) <= n => s \in P
    OBVIOUS
  <2> SUFFICES ASSUME NEW s \in SUBSET S, Cardinality(s) <= n + 1 PROVE s \in P
    BY <2>1
  <2> SUFFICES ASSUME s # {} PROVE s \in P
    OBVIOUS
  <2>2. /\ s \ {First(s)} \in SUBSET S
        /\ Cardinality(s \ {First(s)}) = Cardinality(s) - 1
    BY <1>1, Rest
  <2>3. Cardinality(s \ {First(s)}) <= n
    BY <1>1, <2>1, <2>2
  <2>4. QED BY <2>1, <2>2, <2>3
<1>4. N = Nat
  <2>1. N \in SUBSET Nat
    OBVIOUS
  <2> HIDE DEF N
  <2>2. QED BY <1>2, <1>3, <2>1, NatSetInduction
<1>5. QED BY <1>1, <1>4

(* A function on a family of finite sets that sums up f.                       *)
SumsUp(f, D, h) ==
  h = [s \in D |-> IF s = {} THEN 0 ELSE f[First(s)] + h[s \ {First(s)}]]

(* There is one on all subsets of a finite set.                                *)
LEMMA SumsExist ==
  ASSUME NEW f, NEW S, IsFiniteSet(S)
  PROVE  \E h : SumsUp(f, SUBSET S, h)
<1> DEFINE Small(n) == {s \in SUBSET S : Cardinality(s) <= n}
           N == {n \in Nat : \E h : SumsUp(f, Small(n), h)}
<1>1. \A s \in SUBSET S : IsFiniteSet(s) /\ Cardinality(s) \in Nat
  BY FS_Subset, FS_CardinalityType
<1>2. 0 \in N
  <2> DEFINE h == [s \in Small(0) |-> 0]
  <2>1. \A s \in Small(0) : s = {}
    <3> SUFFICES ASSUME NEW s \in Small(0) PROVE s = {}
      OBVIOUS
    <3>1. IsFiniteSet(s) /\ Cardinality(s) = 0
      BY <1>1
    <3>2. QED BY <3>1, FS_EmptySet
  <2>2. SumsUp(f, Small(0), h)
    BY <2>1 DEF SumsUp
  <2>3. QED BY <2>2
<1>3. ASSUME NEW n \in N PROVE n + 1 \in N
  <2>1. PICK h : SumsUp(f, Small(n), h)
    OBVIOUS
  <2> DEFINE g == [s \in Small(n + 1) |->
                     IF s = {} THEN 0 ELSE f[First(s)] + h[s \ {First(s)}]]
  <2>2. ASSUME NEW s \in Small(n + 1), s # {}
        PROVE  g[s \ {First(s)}] = h[s \ {First(s)}]
    <3> DEFINE t == s \ {First(s)}
    <3>1. t \in Small(n) /\ t \in Small(n + 1)
      BY <1>1, <2>2, Rest
    <3>2. h[t] = IF t = {} THEN 0 ELSE f[First(t)] + h[t \ {First(t)}]
      BY <2>1, <3>1 DEF SumsUp
    <3>3. QED BY <3>1, <3>2
  <2>3. SumsUp(f, Small(n + 1), g)
    BY <2>2 DEF SumsUp
  <2>4. \E k : SumsUp(f, Small(n + 1), k)
    <3> HIDE DEF g
    <3>1. QED BY <2>3
  <2>5. n \in Nat /\ n + 1 \in Nat
    OBVIOUS
  <2> HIDE DEF Small, g
  <2>6. QED BY <2>4, <2>5
<1>4. N = Nat
  <2>1. N \in SUBSET Nat
    OBVIOUS
  <2> HIDE DEF N
  <2>2. QED BY <1>2, <1>3, <2>1, NatSetInduction
<1>5. Cardinality(S) \in Nat /\ Small(Cardinality(S)) = SUBSET S
  BY FS_Subset, FS_CardinalityType
<1>6. QED BY <1>4, <1>5

(* The library's sum over a finite set is made in this way.                    *)
Total(f, S) == MapThenSumSet(LAMBDA x : f[x], S)

(* What that sum is: the value at the whole set.                               *)
LEMMA SumIs ==
  ASSUME NEW f, NEW S, IsFiniteSet(S)
  PROVE  \E h : SumsUp(f, SUBSET S, h) /\ Total(f, S) = h[S]
<1> DEFINE h == CHOOSE h : SumsUp(f, SUBSET S, h)
<1>1. SumsUp(f, SUBSET S, h)
  BY SumsExist
<1>2. Total(f, S) = h[S]
  BY DEF Total, MapThenSumSet, MapThenFoldSet, SumsUp, First
<1>3. QED BY <1>1, <1>2

(* A sum of naturals is a natural; one of zeroes is zero.                      *)
LEMMA SumType ==
  ASSUME NEW S, IsFiniteSet(S), NEW f, \A x \in S : f[x] \in Nat
  PROVE  /\ Total(f, S) \in Nat
         /\ (\A x \in S : f[x] = 0) => Total(f, S) = 0
<1>1. PICK h : SumsUp(f, SUBSET S, h) /\ Total(f, S) = h[S]
  BY SumIs
<1> DEFINE P == {s \in SUBSET S : h[s] \in Nat /\ ((\A x \in S : f[x] = 0) => h[s] = 0)}
<1>2. {} \in P
  BY <1>1 DEF SumsUp
<1>3. \A s \in SUBSET S : s # {} /\ s \ {First(s)} \in P => s \in P
  <2> SUFFICES ASSUME NEW s \in SUBSET S, s # {}, s \ {First(s)} \in P PROVE s \in P
    OBVIOUS
  <2>1. First(s) \in S
    BY DEF First
  <2>2. h[s] = f[First(s)] + h[s \ {First(s)}]
    BY <1>1 DEF SumsUp
  <2>3. QED BY <2>1, <2>2
<1>4. P \in SUBSET (SUBSET S)
  OBVIOUS
<1> HIDE DEF P
<1>5. P = SUBSET S
  BY <1>2, <1>3, <1>4, SubsetInduction
<1>6. S \in P
  BY <1>5
<1>7. QED BY <1>1, <1>6 DEF P

(* A function on a beginning of the positive naturals is a sequence.           *)
LEMMA FunctionIsSeq ==
  ASSUME NEW n \in Nat, NEW S, NEW f \in [1 .. n -> S]
  PROVE  f \in Seq(S) /\ Len(f) = n /\ DOMAIN f = 1 .. n
<1>1. f \in Seq(S)
  BY SeqDef
<1>2. Len(f) \in Nat /\ 1 .. Len(f) = 1 .. n
  BY <1>1, LenProperties
<1>3. Len(f) = n
  BY <1>2
<1>4. QED BY <1>1, <1>3

(* A function defined by recursion over a beginning of the naturals.           *)
Follows(f, n, a, g) == f[0] = a /\ \A k \in 1 .. n : f[k] = g[<<k, f[k - 1]>>]

(* There is such a function if every step stays within a set.                  *)
LEMMA Recursion ==
  ASSUME NEW n \in Nat, NEW V, NEW a, a \in V, NEW g, \A k \in 1 .. n, v \in V : g[<<k, v>>] \in V
  PROVE  \E f : f \in [0 .. n -> V] /\ Follows(f, n, a, g)
<1> DEFINE Upto(m, f) == f[0] = a /\ \A k \in 1 .. m : f[k] = g[<<k, f[k - 1]>>]
           N == {m \in Nat : m <= n => \E f \in [0 .. m -> V] : Upto(m, f)}
<1>1. 0 \in N
  <2> DEFINE f == [k \in 0 .. 0 |-> a]
  <2>1. f \in [0 .. 0 -> V] /\ Upto(0, f)
    OBVIOUS
  <2>2. QED BY <2>1
<1>2. ASSUME NEW m \in N PROVE m + 1 \in N
  <2>1. m \in Nat /\ m + 1 \in Nat
    OBVIOUS
  <2> SUFFICES ASSUME m + 1 <= n PROVE \E h \in [0 .. m + 1 -> V] : Upto(m + 1, h)
    BY <2>1
  <2>2. PICK f \in [0 .. m -> V] : Upto(m, f)
    BY <2>1
  <2>3. g[<<m + 1, f[m]>>] \in V
    <3>1. m + 1 \in 1 .. n /\ f[m] \in V
      BY <2>1, <2>2
    <3>2. QED BY <3>1
  <2> DEFINE h == [k \in 0 .. m + 1 |-> IF k = m + 1 THEN g[<<m + 1, f[m]>>] ELSE f[k]]
  <2>4. h \in [0 .. m + 1 -> V]
    BY <2>1, <2>2, <2>3
  <2>5. \A k \in 0 .. m : h[k] = f[k]
    BY <2>1
  <2>6. h[m + 1] = g[<<m + 1, f[m]>>] /\ f[m] = h[m]
    BY <2>1
  <2> HIDE DEF h
  <2>7. Upto(m + 1, h)
    <3>1. h[0] = a
      BY <2>1, <2>2, <2>5
    <3>2. ASSUME NEW k \in 1 .. m PROVE h[k] = g[<<k, h[k - 1]>>]
      <4>1. k \in 0 .. m /\ k - 1 \in 0 .. m
        BY <2>1
      <4>2. QED BY <2>2, <2>5, <4>1
    <3>3. \A k \in 1 .. (m + 1) : k \in 1 .. m \/ k = m + 1
      BY <2>1
    <3>4. (m + 1) - 1 = m
      BY <2>1
    <3>5. QED BY <2>6, <3>1, <3>2, <3>3, <3>4
  <2>8. QED BY <2>4, <2>7
<1>3. N = Nat
  <2>1. N \in SUBSET Nat
    OBVIOUS
  <2> HIDE DEF N
  <2>2. QED BY <1>1, <1>2, <2>1, NatSetInduction
<1>4. PICK f \in [0 .. n -> V] : Upto(n, f)
  BY <1>3
<1>5. Follows(f, n, a, g)
  BY <1>4 DEF Follows
<1>6. QED BY <1>5

(* One that multiplies by a factor and adds a term at each step.               *)
IsHorner(f, n, a, b, c) == f = [k \in 0 .. n |-> IF k = 0 THEN a ELSE f[k - 1] * b + c[k]]

(* There is such a function of naturals.                                       *)
LEMMA HornerExists ==
  ASSUME NEW n \in Nat, NEW a \in Nat, NEW b \in Nat, NEW c, \A k \in 1 .. n : c[k] \in Nat
  PROVE  \E f : IsHorner(f, n, a, b, c)
<1> DEFINE g == [kx \in (1 .. n) \X Nat |-> kx[2] * b + c[kx[1]]]
<1>1. \A k \in 1 .. n, v \in Nat : g[<<k, v>>] = v * b + c[k] /\ g[<<k, v>>] \in Nat
  OBVIOUS
<1> HIDE DEF g
<1>2. PICK f : f \in [0 .. n -> Nat] /\ Follows(f, n, a, g)
  <2> DEFINE V == Nat
  <2>1. a \in V /\ \A k \in 1 .. n, v \in V : g[<<k, v>>] \in V
    BY <1>1
  <2> HIDE DEF V
  <2>2. \E f : f \in [0 .. n -> V] /\ Follows(f, n, a, g)
    BY <2>1, Recursion
  <2>3. QED BY <2>2 DEF V
<1>3. f[0] = a /\ \A k \in 1 .. n : f[k] = g[<<k, f[k - 1]>>]
  BY <1>2 DEF Follows
<1>4. \A k \in 0 .. n : f[k] = IF k = 0 THEN a ELSE f[k - 1] * b + c[k]
  <2> SUFFICES ASSUME NEW k \in 0 .. n, k # 0 PROVE f[k] = f[k - 1] * b + c[k]
    BY <1>3
  <2>1. k \in 1 .. n /\ k - 1 \in 0 .. n
    OBVIOUS
  <2>2. f[k - 1] \in Nat
    BY <1>2, <2>1
  <2>3. QED BY <1>1, <1>3, <2>1, <2>2
<1>5. IsHorner(f, n, a, b, c)
  BY <1>2, <1>4 DEF IsHorner
<1>6. QED BY <1>5

(* Whatever satisfies the equation is it.                                      *)
LEMMA HornerIs ==
  ASSUME NEW n \in Nat, NEW a \in Nat, NEW b \in Nat, NEW c, \A k \in 1 .. n : c[k] \in Nat,
         NEW f, IsHorner(f, n, a, b, c)
  PROVE  /\ f \in [0 .. n -> Nat] /\ f[0] = a
         /\ \A k \in 1 .. n : f[k] = f[k - 1] * b + c[k]
<1>1. f[0] = a
  <2>1. 0 \in 0 .. n
    OBVIOUS
  <2>2. QED BY <2>1 DEF IsHorner
<1>2. \A k \in 1 .. n : f[k] = f[k - 1] * b + c[k]
  BY DEF IsHorner
<1> DEFINE N == {m \in Nat : m <= n => f[m] \in Nat}
<1>3. N \in SUBSET Nat /\ 0 \in N
  BY <1>1
<1>4. ASSUME NEW m \in N PROVE m + 1 \in N
  <2> SUFFICES ASSUME m + 1 <= n PROVE f[m + 1] \in Nat
    OBVIOUS
  <2>1. m + 1 \in 1 .. n /\ f[m] \in Nat /\ (m + 1) - 1 = m
    OBVIOUS
  <2>2. f[m + 1] = f[m] * b + c[m + 1]
    BY <1>2, <2>1
  <2>3. f[m] * b \in Nat /\ c[m + 1] \in Nat
    BY <2>1
  <2>4. QED BY <2>2, <2>3
<1> HIDE DEF N
<1>5. N = Nat
  BY <1>3, <1>4, NatSetInduction
<1>6. \A k \in 0 .. n : f[k] \in Nat
  BY <1>5 DEF N
<1>7. DOMAIN f = 0 .. n /\ f = [k \in DOMAIN f |-> f[k]]
  BY DEF IsHorner
<1>8. QED BY <1>1, <1>2, <1>6, <1>7

(* Dividing takes off what was put behind.                                     *)
LEMMA DivOfSum ==
  ASSUME NEW u \in Nat, NEW d \in Nat \ {0}, NEW r \in Nat, r < d
  PROVE  (u * d + r) \div d = u
<1> DEFINE a == u * d + r
           q == a \div d
           m == a % d
<1>1. a \in Nat
  <2>1. u * d \in Nat
    OBVIOUS
  <2>2. QED BY <2>1
<1> HIDE DEF a
<1>2. q \in Nat /\ m \in Nat /\ a = q * d + m /\ m < d
  BY <1>1, DivMod
<1>3. q * d \in Int /\ u * d \in Int /\ a = u * d + r
  BY <1>2 DEF a
<1> HIDE DEF q, m
<1>4. CASE q < u
  <2>1. (q + 1) * d <= u * d
    BY <1>2, <1>4, TimesMonotone
  <2>2. (q + 1) * d = q * d + d
    BY <1>2
  <2>3. QED BY <1>2, <1>3, <2>1, <2>2
<1>5. CASE q > u
  <2>1. (u + 1) * d <= q * d
    BY <1>2, <1>5, TimesMonotone
  <2>2. (u + 1) * d = u * d + d
    OBVIOUS
  <2>3. QED BY <1>2, <1>3, <2>1, <2>2
<1>6. QED BY <1>2, <1>4, <1>5 DEF q, a

(* A common factor leaves the order as it is.                                  *)
LEMMA Scaled ==
  ASSUME NEW a \in Int, NEW b \in Int, NEW k \in Nat \ {0}
  PROVE  /\ k * a \in Int /\ k * b \in Int
         /\ k * a < k * b <=> a < b
<1>1. k * a \in Int /\ k * b \in Int
  BY TimesInt
<1>2. ASSUME b <= a PROVE k * b <= k * a
  <2>1. b * k <= a * k
    BY <1>2, TimesMonotone
  <2>2. QED BY <2>1
<1>3. ASSUME a < b PROVE k * a < k * b
  <2>1. (a + 1) * k <= b * k
    BY <1>3, TimesMonotone
  <2>2. (a + 1) * k = a * k + k
    OBVIOUS
  <2>3. a * k = k * a /\ b * k = k * b
    OBVIOUS
  <2>4. QED BY <1>1, <2>1, <2>2, <2>3
<1>4. QED BY <1>1, <1>2, <1>3

(* A mixture of two numbers grows with both.                                   *)
LEMMA MixMonotone ==
  ASSUME NEW a \in Int, NEW b \in Int, NEW u \in Int, NEW v \in Int,
         NEW D \in Nat, NEW R \in Nat, R <= D, a <= u, b <= v
  PROVE  a * D + R * (b - a) <= u * D + R * (v - u)
<1> DEFINE Q == D - R
<1>1. Q \in Nat /\ D = Q + R
  OBVIOUS
<1> HIDE DEF Q
<1>2. a * Q <= u * Q /\ b * R <= v * R
  BY <1>1, TimesMonotone
<1>3. a * D + R * (b - a) = a * Q + b * R
  <2>1. a * D = a * Q + a * R
    BY <1>1
  <2>2. R * (b - a) = b * R - a * R
    OBVIOUS
  <2>3. QED BY <2>1, <2>2, <1>1
<1>4. u * D + R * (v - u) = u * Q + v * R
  <2>1. u * D = u * Q + u * R
    BY <1>1
  <2>2. R * (v - u) = v * R - u * R
    OBVIOUS
  <2>3. QED BY <2>1, <2>2, <1>1
<1>5. a * Q \in Int /\ u * Q \in Int /\ b * R \in Int /\ v * R \in Int
  BY <1>1, TimesInt
<1>6. QED BY <1>2, <1>3, <1>4, <1>5

(* A sum of integers is an integer.                                            *)
LEMMA TotalInt ==
  ASSUME NEW S, IsFiniteSet(S), NEW f, \A x \in S : f[x] \in Int
  PROVE  Total(f, S) \in Int
<1>1. PICK h : SumsUp(f, SUBSET S, h) /\ Total(f, S) = h[S]
  BY SumIs
<1> DEFINE P == {s \in SUBSET S : h[s] \in Int}
<1>2. {} \in P /\ P \in SUBSET (SUBSET S)
  BY <1>1 DEF SumsUp
<1>3. ASSUME NEW s \in SUBSET S, s # {}, s \ {First(s)} \in P PROVE s \in P
  <2>1. f[First(s)] \in Int
    BY <1>3 DEF First
  <2>2. h[s] = f[First(s)] + h[s \ {First(s)}]
    BY <1>1, <1>3 DEF SumsUp
  <2>3. QED BY <1>3, <2>1, <2>2
<1> HIDE DEF P
<1>4. S \in P
  BY <1>2, <1>3, SubsetInduction
<1>5. QED BY <1>1, <1>4 DEF P

(* As many times the same number.                                              *)
LEMMA TotalOfSame ==
  ASSUME NEW S, IsFiniteSet(S), NEW f, NEW c \in Int, \A x \in S : f[x] = c
  PROVE  Total(f, S) = Cardinality(S) * c
<1>1. PICK h : SumsUp(f, SUBSET S, h) /\ Total(f, S) = h[S]
  BY SumIs
<1> DEFINE P == {s \in SUBSET S : h[s] = Cardinality(s) * c}
<1>2. {} \in P
  <2>1. h[{}] = 0 /\ Cardinality({}) = 0
    BY <1>1, FS_EmptySet DEF SumsUp
  <2>2. QED BY <2>1
<1>3. ASSUME NEW s \in SUBSET S, s # {}, s \ {First(s)} \in P PROVE s \in P
  <2>1. /\ Cardinality(s \ {First(s)}) = Cardinality(s) - 1
        /\ Cardinality(s) \in Nat \ {0} /\ First(s) \in S
    BY <1>3, FS_Subset, Rest
  <2>2. h[s] = c + h[s \ {First(s)}]
    BY <1>1, <1>3, <2>1 DEF SumsUp
  <2> DEFINE n == Cardinality(s)
  <2>3. h[s] = c + (n - 1) * c
    BY <1>3, <2>1, <2>2
  <2>4. n \in Nat
    BY <2>1
  <2> HIDE DEF n
  <2>5. h[s] = n * c
    BY <2>3, <2>4
  <2>6. QED BY <2>5 DEF n
<1>4. P \in SUBSET (SUBSET S)
  OBVIOUS
<1> HIDE DEF P
<1>5. S \in P
  BY <1>2, <1>3, <1>4, SubsetInduction
<1>6. QED BY <1>1, <1>5 DEF P

(* A sum is at least, and at most, so many times a bound of what it sums up.   *)
LEMMA TotalBounds ==
  ASSUME NEW S, IsFiniteSet(S), NEW f, \A x \in S : f[x] \in Int, NEW c \in Int
  PROVE  /\ (\A x \in S : c <= f[x]) => c * Cardinality(S) <= Total(f, S)
         /\ (\A x \in S : f[x] <= c) => Total(f, S) <= c * Cardinality(S)
<1>1. PICK h : SumsUp(f, SUBSET S, h) /\ Total(f, S) = h[S]
  BY SumIs
<1> DEFINE P == {s \in SUBSET S :
                   /\ h[s] \in Int
                   /\ (\A x \in S : c <= f[x]) => c * Cardinality(s) <= h[s]
                   /\ (\A x \in S : f[x] <= c) => h[s] <= c * Cardinality(s)}
<1>2. {} \in P /\ P \in SUBSET (SUBSET S)
  <2>1. h[{}] = 0 /\ Cardinality({}) = 0
    BY <1>1, FS_EmptySet DEF SumsUp
  <2>2. c * 0 = 0
    OBVIOUS
  <2>3. QED BY <2>1, <2>2
<1>3. ASSUME NEW s \in SUBSET S, s # {}, s \ {First(s)} \in P PROVE s \in P
  <2> DEFINE t == s \ {First(s)}
             n == Cardinality(t)
             x == f[First(s)]
             y == h[t]
             z == h[s]
  <2>1. Cardinality(s) = n + 1 /\ n \in Nat /\ First(s) \in S
    <3>1. /\ Cardinality(t) = Cardinality(s) - 1 /\ First(s) \in s
          /\ Cardinality(s) \in Nat \ {0}
      BY <1>3, FS_Subset, Rest
    <3>2. QED BY <3>1
  <2>2. z = x + y
    BY <1>1, <1>3 DEF SumsUp
  <2>3. x \in Int /\ y \in Int /\ z \in Int
    BY <1>3, <2>1, <2>2
  <2>4. c * (n + 1) = c + c * n /\ c * n \in Int /\ c * (n + 1) \in Int
    <3>1. c * n \in Int
      BY <2>1, TimesInt
    <3>2. c * (n + 1) = c + c * n
      BY <2>1
    <3>3. QED BY <3>1, <3>2
  <2>5. ASSUME \A o \in S : c <= f[o] PROVE c * (n + 1) <= z
    <3>1. c <= x /\ c * n <= y
      BY <1>3, <2>1, <2>5
    <3> HIDE DEF n, x, y, z
    <3>2. QED BY <2>2, <2>3, <2>4, <3>1
  <2>6. ASSUME \A o \in S : f[o] <= c PROVE z <= c * (n + 1)
    <3>1. x <= c /\ y <= c * n
      BY <1>3, <2>1, <2>6
    <3> HIDE DEF n, x, y, z
    <3>2. QED BY <2>2, <2>3, <2>4, <3>1
  <2>7. QED BY <2>1, <2>3, <2>5, <2>6
<1> HIDE DEF P
<1>4. S \in P
  BY <1>2, <1>3, SubsetInduction
<1>5. QED BY <1>1, <1>4 DEF P

(* Among finitely many there is one with the largest, and one with the         *)
(* smallest number.                                                            *)
LEMMA Extremes ==
  ASSUME NEW S, IsFiniteSet(S), S # {}, NEW f, \A x \in S : f[x] \in Int
  PROVE  /\ \E x \in S : \A y \in S : f[y] <= f[x]
         /\ \E x \in S : \A y \in S : f[x] <= f[y]
<1> DEFINE P == {s \in SUBSET S : s # {} => /\ \E x \in s : \A y \in s : f[y] <= f[x]
                                            /\ \E x \in s : \A y \in s : f[x] <= f[y]}
<1>1. {} \in P /\ P \in SUBSET (SUBSET S)
  OBVIOUS
<1>2. ASSUME NEW s \in SUBSET S, s # {}, s \ {First(s)} \in P PROVE s \in P
  <2> DEFINE a == First(s)
             t == s \ {a}
  <2>1. a \in s /\ s = t \cup {a} /\ f[a] \in Int /\ \A y \in t : f[y] \in Int
    BY <1>2 DEF First
  <2>2. t # {} => /\ \E x \in t : \A y \in t : f[y] <= f[x]
                  /\ \E x \in t : \A y \in t : f[x] <= f[y]
    BY <1>2
  <2> HIDE DEF a, t
  <2>3. CASE t = {}
    BY <2>1, <2>3
  <2>4. CASE t # {}
    <3>1. PICK u \in t : \A y \in t : f[y] <= f[u]
      BY <2>2, <2>4
    <3>2. PICK v \in t : \A y \in t : f[v] <= f[y]
      BY <2>2, <2>4
    <3>3. \E x \in s : \A y \in s : f[y] <= f[x]
      <4>1. CASE f[a] <= f[u]
        BY <2>1, <3>1, <4>1
      <4>2. CASE f[u] <= f[a]
        BY <2>1, <3>1, <4>2
      <4>3. QED BY <2>1, <4>1, <4>2
    <3>4. \E x \in s : \A y \in s : f[x] <= f[y]
      <4>1. CASE f[a] <= f[v]
        BY <2>1, <3>2, <4>1
      <4>2. CASE f[v] <= f[a]
        BY <2>1, <3>2, <4>2
      <4>3. QED BY <2>1, <4>1, <4>2
    <3>5. QED BY <3>3, <3>4
  <2>5. QED BY <2>3, <2>4
<1> HIDE DEF P
<1>3. P = SUBSET S
  BY <1>1, <1>2, SubsetInduction
<1>4. S \in P
  BY <1>3
<1>5. QED BY <1>4 DEF P

------------------------------------------------------------------------------
(* The quantile.                                                               *)

(* A sum may take any element first.                                           *)
LEMMA TotalTake ==
  ASSUME NEW S, IsFiniteSet(S), NEW f, \A x \in S : f[x] \in Int, NEW x \in S
  PROVE  Total(f, S) = f[x] + Total(f, S \ {x})
<1> DEFINE Takes(s) == \A y \in s : Total(f, s) = f[y] + Total(f, s \ {y})
           N == {n \in Nat : \A s \in SUBSET S : Cardinality(s) <= n => Takes(s)}
<1>1. \A s \in SUBSET S : IsFiniteSet(s) /\ Cardinality(s) \in Nat /\ Total(f, s) \in Int
  BY FS_Subset, FS_CardinalityType, TotalInt
<1>2. ASSUME NEW s \in SUBSET S, s # {}
      PROVE  Total(f, s) = f[First(s)] + Total(f, s \ {First(s)})
  <2> DEFINE t == s \ {First(s)}
  <2>1. PICK h : SumsUp(f, SUBSET s, h) /\ Total(f, s) = h[s]
    BY <1>1, SumIs
  <2>2. h[s] = f[First(s)] + h[t]
    BY <1>2, <2>1 DEF SumsUp
  <2>3. PICK g : SumsUp(f, SUBSET t, g) /\ Total(f, t) = g[t]
    BY <1>1, SumIs
  <2> DEFINE P == {u \in SUBSET t : g[u] = h[u]}
  <2>4. {} \in P /\ P \in SUBSET (SUBSET t)
    BY <2>1, <2>3 DEF SumsUp
  <2>5. ASSUME NEW u \in SUBSET t, u # {}, u \ {First(u)} \in P PROVE u \in P
    <3>1. u \in SUBSET s
      OBVIOUS
    <3>2. g[u] = f[First(u)] + g[u \ {First(u)}]
      BY <2>3, <2>5 DEF SumsUp
    <3>3. h[u] = f[First(u)] + h[u \ {First(u)}]
      BY <2>1, <2>5, <3>1 DEF SumsUp
    <3>4. QED BY <2>5, <3>2, <3>3
  <2>6. IsFiniteSet(t)
    BY <1>1
  <2> HIDE DEF P, t
  <2>7. t \in P
    BY <2>4, <2>5, <2>6, SubsetInduction
  <2>8. QED BY <2>1, <2>2, <2>3, <2>7 DEF P, t
<1>3. N \in SUBSET Nat /\ 0 \in N
  <2>1. ASSUME NEW s \in SUBSET S, Cardinality(s) <= 0 PROVE Takes(s)
    <3>1. s = {}
      BY <1>1, <2>1, FS_EmptySet
    <3>2. QED BY <3>1
  <2> HIDE DEF Takes
  <2>2. QED BY <2>1
<1>4. ASSUME NEW n \in N PROVE n + 1 \in N
  <2>1. n \in Nat /\ \A s \in SUBSET S : Cardinality(s) <= n => Takes(s)
    BY DEF N
  <2> SUFFICES ASSUME NEW s \in SUBSET S, Cardinality(s) <= n + 1, NEW y \in s
               PROVE  Total(f, s) = f[y] + Total(f, s \ {y})
    BY <2>1
  <2> DEFINE z == First(s)
             t == s \ {z}
             u == s \ {y}
             v == t \ {y}
  <2>2. z \in s /\ Total(f, s) = f[z] + Total(f, t)
    BY <1>2 DEF First
  <2>3. CASE y = z
    BY <2>2, <2>3
  <2>4. CASE y # z
    <3>1. ASSUME NEW w \in s PROVE Takes(s \ {w})
      <4>1. Cardinality(s \ {w}) = Cardinality(s) - 1 /\ s \ {w} \in SUBSET S
        BY <1>1, FS_RemoveElement
      <4>2. Cardinality(s \ {w}) <= n
        BY <1>1, <2>1, <4>1
      <4> HIDE DEF Takes
      <4>3. QED BY <2>1, <4>1, <4>2
    <3>2. Total(f, t) = f[y] + Total(f, v)
      BY <2>2, <2>4, <3>1
    <3>3. u \ {z} = v
      OBVIOUS
    <3>4. Total(f, u) = f[z] + Total(f, v)
      BY <2>2, <2>4, <3>1, <3>3
    <3>5. f[y] \in Int /\ f[z] \in Int /\ Total(f, v) \in Int
      BY <1>1, <2>2
    <3> HIDE DEF z, t, u, v
    <3>6. QED BY <2>2, <3>2, <3>4, <3>5 DEF u
  <2>5. QED BY <2>3, <2>4
<1> HIDE DEF N
<1>5. N = Nat
  BY <1>3, <1>4, NatSetInduction
<1>6. Cardinality(S) \in N
  BY <1>1, <1>5
<1>7. QED BY <1>1, <1>6 DEF N

(* The empty sum.                                                              *)
LEMMA TotalEmpty == \A f : Total(f, {}) = 0
<1>1. ASSUME NEW f PROVE Total(f, {}) = 0
  <2>1. IsFiniteSet({})
    BY FS_EmptySet
  <2>2. \A x \in {} : f[x] \in Nat
    OBVIOUS
  <2>3. QED BY <2>1, <2>2, SumType
<1>2. QED BY <1>1

(* A claim about the finite subsets of a set holds if adding elements keeps it.*)
LEMMA GrowInduction ==
  ASSUME NEW S, IsFiniteSet(S), NEW P \in SUBSET (SUBSET S), {} \in P,
         \A s \in SUBSET S : \A x \in s : s \ {x} \in P => s \in P
  PROVE  S \in P
<1>1. \A s \in SUBSET S : s # {} => First(s) \in s
  BY DEF First
<1>2. \A s \in SUBSET S : s # {} /\ s \ {First(s)} \in P => s \in P
  BY <1>1
<1>3. P = SUBSET S
  BY <1>2, SubsetInduction
<1>4. QED BY <1>3

(* Under another numbering, and each of the values a multiple.                 *)
LEMMA TotalScaled ==
  ASSUME NEW S, IsFiniteSet(S), NEW b, NEW f, NEW g, NEW c \in Int,
         \A x, y \in S : b[x] = b[y] => x = y,
         \A x \in S : f[x] \in Int /\ g[b[x]] = f[x] * c
  PROVE  /\ Total(g, {b[x] : x \in S}) = Total(f, S) * c
         /\ IsFiniteSet({b[x] : x \in S})
<1> DEFINE Image(s) == {b[x] : x \in s}
           P == {s \in SUBSET S : /\ IsFiniteSet(Image(s))
                                  /\ Total(g, Image(s)) = Total(f, s) * c}
<1>1. \A s \in SUBSET S : IsFiniteSet(s) /\ Total(f, s) \in Int
  BY FS_Subset, TotalInt
<1>2. \A x \in S : g[b[x]] \in Int
  BY TimesInt
<1>3. {} \in P /\ P \in SUBSET (SUBSET S)
  <2>1. Image({}) = {}
    OBVIOUS
  <2>2. Total(f, {}) = 0 /\ Total(g, {}) = 0 /\ IsFiniteSet({}) /\ 0 * c = 0
    BY TotalEmpty, FS_EmptySet
  <2> HIDE DEF Image
  <2>3. QED BY <2>1, <2>2
<1>4. ASSUME NEW s \in SUBSET S, NEW x \in s, s \ {x} \in P PROVE s \in P
  <2> DEFINE t == s \ {x}
  <2>1. /\ IsFiniteSet(Image(t)) /\ Total(g, Image(t)) = Total(f, t) * c
    BY <1>4
  <2>2. b[x] \in Image(s) /\ Image(s) = Image(t) \cup {b[x]} /\ Image(s) \ {b[x]} = Image(t)
    OBVIOUS
  <2>3. \A i \in Image(s) : g[i] \in Int
    BY <1>2
  <2> DEFINE I == Image(s)
             J == Image(t)
  <2> HIDE DEF Image, I, J
  <2>4. IsFiniteSet(I)
    <3>1. IsFiniteSet(J) /\ I = J \cup {b[x]}
      BY <2>1, <2>2 DEF I, J
    <3>2. QED BY <3>1, FS_AddElement
  <2>5. Total(g, I) = g[b[x]] + Total(g, J)
    <3>1. b[x] \in I /\ I \ {b[x]} = J /\ \A i \in I : g[i] \in Int
      BY <2>2, <2>3 DEF I, J
    <3>2. QED BY <2>4, <3>1, TotalTake
  <2>6. Total(f, s) = f[x] + Total(f, t)
    BY <1>1, TotalTake
  <2>7. f[x] \in Int /\ Total(f, t) \in Int /\ g[b[x]] = f[x] * c
    BY <1>1
  <2>8. (f[x] + Total(f, t)) * c = f[x] * c + Total(f, t) * c
    <3> DEFINE y == f[x]
               z == Total(f, t)
    <3> HIDE DEF y, z
    <3>1. y \in Int /\ z \in Int
      BY <2>7 DEF y, z
    <3>2. (y + z) * c = y * c + z * c
      BY <3>1
    <3>3. QED BY <3>2 DEF y, z
  <2>9. Total(g, Image(s)) = Total(f, s) * c
    BY <2>1, <2>5, <2>6, <2>7, <2>8 DEF I, J
  <2>10. QED BY <2>4, <2>9 DEF I
<1> HIDE DEF P
<1>5. S \in P
  BY <1>3, <1>4, GrowInduction
<1>6. QED BY <1>5 DEF P

(* Each of the values a multiple.                                              *)
LEMMA TotalTimes ==
  ASSUME NEW S, IsFiniteSet(S), NEW f, NEW g, NEW c \in Int,
         \A x \in S : f[x] \in Int /\ g[x] = f[x] * c
  PROVE  Total(g, S) = Total(f, S) * c
<1> DEFINE b == [x \in S |-> x]
<1>1. /\ \A x, y \in S : b[x] = b[y] => x = y
      /\ \A x \in S : f[x] \in Int /\ g[b[x]] = f[x] * c
      /\ {b[x] : x \in S} = S
  OBVIOUS
<1> HIDE DEF b
<1>2. Total(g, {b[x] : x \in S}) = Total(f, S) * c
  BY <1>1, TotalScaled
<1>3. QED BY <1>1, <1>2

(* A sum depends on its values only.                                           *)
LEMMA TotalSame ==
  ASSUME NEW S, IsFiniteSet(S), NEW f, NEW g, \A x \in S : f[x] \in Int /\ g[x] = f[x]
  PROVE  Total(g, S) = Total(f, S)
<1> DEFINE m == Total(f, S)
<1>1. \A x \in S : f[x] \in Int /\ g[x] = f[x] * 1
  OBVIOUS
<1>2. Total(g, S) = m * 1
  BY <1>1, TotalTimes
<1>3. m \in Int
  BY TotalInt
<1> HIDE DEF m
<1>4. m * 1 = m
  BY <1>3
<1>5. QED BY <1>2, <1>4 DEF m

(* Every element has its class k, and h sums up f class by class.              *)
ByClass(S, T, k, f, h) ==
  /\ \A x \in S : f[x] \in Int /\ k[x] \in T
  /\ \A t \in T : h[t] = Total(f, {x \in S : k[x] = t})

(* The sum over the classes is the sum.                                        *)
LEMMA TotalByClass ==
  ASSUME NEW S, IsFiniteSet(S), NEW T, IsFiniteSet(T), NEW k, NEW f, NEW h, ByClass(S, T, k, f, h)
  PROVE  Total(h, T) = Total(f, S)
<1> USE DEF ByClass
<1> DEFINE Class(s, t) == {x \in s : k[x] = t}
           Sums(s) == [t \in T |-> Total(f, Class(s, t))]
           P == {s \in SUBSET S : Total(Sums(s), T) = Total(f, s)}
<1>1. \A s \in SUBSET S : IsFiniteSet(s) /\ Total(f, s) \in Int
  BY FS_Subset, TotalInt
<1>2. \A s \in SUBSET S, t \in T : Class(s, t) \in SUBSET S /\ Sums(s)[t] \in Int
  BY <1>1
<1>3. {} \in P /\ P \in SUBSET (SUBSET S)
  <2> DEFINE g == Sums({})
  <2>1. \A t \in T : g[t] = 0
    BY TotalEmpty
  <2> HIDE DEF g
  <2>2. Total(g, T) = 0
    BY <2>1, SumType
  <2>3. QED BY <2>2, TotalEmpty DEF g
<1>4. ASSUME NEW s \in SUBSET S, NEW x \in s, s \ {x} \in P PROVE s \in P
  <2> DEFINE r == s \ {x}
             c == k[x]
             U == T \ {c}
             g == Sums(s)
             d == Sums(r)
  <2>1. r \in SUBSET S /\ x \in S /\ c \in T
    OBVIOUS
  <2>2. /\ Total(f, s) = f[x] + Total(f, r)
        /\ Total(d, T) = Total(f, r)
    BY <1>1, <1>4, TotalTake
  <2>3. g[c] = f[x] + d[c]
    <3> DEFINE C == Class(s, c)
    <3>1. C \ {x} = Class(r, c) /\ x \in C /\ C \in SUBSET S
      OBVIOUS
    <3>2. g[c] = Total(f, C) /\ d[c] = Total(f, Class(r, c))
      BY <2>1
    <3> HIDE DEF C, Class, g, d, c
    <3>3. Total(f, C) = f[x] + Total(f, C \ {x})
      BY <1>1, <3>1, TotalTake
    <3>4. QED BY <3>1, <3>2, <3>3
  <2>4. \A t \in U : g[t] = d[t]
    <3>1. \A t \in U : Class(s, t) = Class(r, t)
      OBVIOUS
    <3> HIDE DEF Class
    <3>2. QED BY <3>1
  <2>5. \A t \in T : g[t] \in Int /\ d[t] \in Int
    <3> HIDE DEF Sums
    <3>1. QED BY <1>2, <2>1
  <2> HIDE DEF g, d, c
  <2>6. IsFiniteSet(U)
    BY FS_Subset
  <2>7. Total(g, T) = g[c] + Total(g, U) /\ Total(d, T) = d[c] + Total(d, U)
    BY <2>1, <2>5, TotalTake
  <2>8. Total(g, U) = Total(d, U) /\ Total(d, U) \in Int
    BY <2>4, <2>5, <2>6, TotalSame, TotalInt
  <2>9. f[x] \in Int /\ d[c] \in Int
    BY <2>1, <2>5
  <2>10. Total(g, T) = Total(f, s)
    BY <2>2, <2>3, <2>7, <2>8, <2>9
  <2>11. QED BY <2>10 DEF g
<1> HIDE DEF P
<1>5. S \in P
  BY <1>3, <1>4, GrowInduction
<1>6. Total(Sums(S), T) = Total(f, S)
  BY <1>5 DEF P
<1> DEFINE g == Sums(S)
<1>7. \A t \in T : g[t] \in Int /\ h[t] = g[t]
  BY <1>2
<1> HIDE DEF g
<1>8. Total(h, T) = Total(g, T)
  BY <1>7, TotalSame
<1>9. QED BY <1>6, <1>8 DEF g

(* There are finitely many tuples over a finite set.                           *)
LEMMA TuplesFinite ==
  ASSUME NEW S, IsFiniteSet(S), NEW n \in Nat
  PROVE  IsFiniteSet([1 .. n -> S])
<1> DEFINE N == {m \in Nat : IsFiniteSet([1 .. m -> S])}
<1>1. N \in SUBSET Nat /\ 0 \in N
  <2> DEFINE e == [i \in {} |-> {}]
  <2>1. [1 .. 0 -> S] = {e}
    <3>1. 1 .. 0 = {}
      OBVIOUS
    <3>2. [{} -> S] = {e}
      OBVIOUS
    <3>3. QED BY <3>1, <3>2
  <2> HIDE DEF e
  <2>2. IsFiniteSet({e})
    BY FS_Singleton
  <2>3. QED BY <2>1, <2>2
<1>2. ASSUME NEW m \in N PROVE m + 1 \in N
  <2> DEFINE X == [1 .. m -> S]
             Y == [1 .. (m + 1) -> S]
             b == [p \in Y |-> <<[i \in 1 .. m |-> p[i]], p[m + 1]>>]
  <2>1. m \in Nat /\ m + 1 \in Nat /\ IsFiniteSet(X)
    BY <1>2
  <2>2. /\ m + 1 \in 1 .. (m + 1) /\ 1 .. m \subseteq 1 .. (m + 1)
        /\ 1 .. (m + 1) = 1 .. m \cup {m + 1}
    BY <2>1
  <2>3. b \in [Y -> X \X S]
    BY <2>2
  <2>4. ASSUME NEW p \in Y, NEW r \in Y, b[p] = b[r] PROVE p = r
    <3>1. p[m + 1] = r[m + 1]
      BY <2>4
    <3>2. [i \in 1 .. m |-> p[i]] = [i \in 1 .. m |-> r[i]]
      BY <2>4
    <3>3. \A i \in 1 .. m : p[i] = r[i]
      BY <3>2
    <3>4. \A i \in 1 .. (m + 1) : p[i] = r[i]
      BY <2>2, <3>1, <3>3
    <3>5. QED BY <3>4
  <2> HIDE DEF b, X, Y
  <2>5. b \in Injection(Y, X \X S)
    BY <2>3, <2>4 DEF Injection, IsInjective
  <2>6. IsFiniteSet(X \X S)
    BY <2>1, FS_Product
  <2>7. IsFiniteSet(Y)
    BY <2>5, <2>6, FS_Injection
  <2>8. QED BY <2>1, <2>7 DEF Y
<1> HIDE DEF N
<1>3. N = Nat
  BY <1>1, <1>2, NatSetInduction
<1>4. n \in N
  BY <1>3
<1>5. QED BY <1>4 DEF N

(* A sum of sums.                                                              *)
LEMMA TotalPlus ==
  ASSUME NEW S, IsFiniteSet(S), NEW f, NEW g, NEW h,
         \A x \in S : f[x] \in Int /\ g[x] \in Int /\ h[x] = f[x] + g[x]
  PROVE  Total(h, S) = Total(f, S) + Total(g, S)
<1> DEFINE P == {s \in SUBSET S : Total(h, s) = Total(f, s) + Total(g, s)}
<1>1. \A s \in SUBSET S : IsFiniteSet(s) /\ Total(f, s) \in Int /\ Total(g, s) \in Int
  BY FS_Subset, TotalInt
<1>2. {} \in P /\ P \in SUBSET (SUBSET S)
  BY TotalEmpty
<1>3. ASSUME NEW s \in SUBSET S, NEW x \in s, s \ {x} \in P PROVE s \in P
  <2> DEFINE t == s \ {x}
  <2>1. t \in SUBSET S /\ x \in S /\ Total(h, t) = Total(f, t) + Total(g, t)
    BY <1>3
  <2>2. Total(f, s) = f[x] + Total(f, t)
    BY <1>1, TotalTake
  <2>3. Total(g, s) = g[x] + Total(g, t)
    BY <1>1, TotalTake
  <2>4. \A y \in s : h[y] \in Int
    OBVIOUS
  <2>5. Total(h, s) = h[x] + Total(h, t)
    BY <1>1, <2>4, TotalTake
  <2> HIDE DEF t
  <2>6. Total(h, s) = Total(f, s) + Total(g, s)
    BY <1>1, <2>1, <2>2, <2>3, <2>5
  <2>7. QED BY <2>6
<1> HIDE DEF P
<1>4. S \in P
  BY <1>2, <1>3, GrowInduction
<1>5. QED BY <1>4 DEF P

(* A sum of naturals is positive with one of them.                             *)
LEMMA TotalPositive ==
  ASSUME NEW S, IsFiniteSet(S), NEW f, \A x \in S : f[x] \in Nat, NEW x \in S, f[x] > 0
  PROVE  Total(f, S) > 0
<1>1. Total(f, S) = f[x] + Total(f, S \ {x})
  BY TotalTake
<1>2. IsFiniteSet(S \ {x})
  BY FS_Subset
<1>3. Total(f, S \ {x}) \in Nat
  BY <1>2, SumType
<1>4. QED BY <1>1, <1>3

(* And one of them is positive if the sum is.                                  *)
LEMMA PositiveTerm ==
  ASSUME NEW S, IsFiniteSet(S), NEW f, \A x \in S : f[x] \in Nat, Total(f, S) > 0
  PROVE  \E x \in S : f[x] > 0
<1> SUFFICES ASSUME \A x \in S : f[x] = 0 PROVE FALSE
  OBVIOUS
<1>1. Total(f, S) = 0
  BY SumType
<1>2. QED BY <1>1

(* The sum of one column of a matrix whose entries are named by pairs.         *)
Column(m, S, y) == Total([x \in S |-> m[<<x, y>>]], S)
Row(m, T, x)    == Total([y \in T |-> m[<<x, y>>]], T)

(* Row by row or column by column, the sum is the same.                        *)
LEMMA TotalSwap ==
  ASSUME NEW S, IsFiniteSet(S), NEW T, IsFiniteSet(T), NEW m,
         \A x \in S, y \in T : m[<<x, y>>] \in Int
  PROVE  Total([x \in S |-> Row(m, T, x)], S) = Total([y \in T |-> Column(m, S, y)], T)
<1> DEFINE X == S \X T
           f == [x \in S |-> Row(m, T, x)]
           g == [y \in T |-> Column(m, S, y)]
           k == [p \in X |-> p[1]]
           l == [p \in X |-> p[2]]
<1>1. IsFiniteSet(X)
  BY FS_Product
<1>2. \A p \in X : m[p] \in Int /\ k[p] \in S /\ l[p] \in T
  OBVIOUS
<1>3. ASSUME NEW x \in S PROVE f[x] = Total(m, {p \in X : k[p] = x})
  <2> DEFINE b == [y \in T |-> <<x, y>>]
             r == [y \in T |-> m[<<x, y>>]]
  <2>1. {b[y] : y \in T} = {p \in X : k[p] = x}
    OBVIOUS
  <2>2. \A y, z \in T : b[y] = b[z] => y = z
    OBVIOUS
  <2>3. \A y \in T : r[y] \in Int /\ m[b[y]] = r[y] * 1
    OBVIOUS
  <2>4. f[x] = Total(r, T)
    BY DEF Row
  <2> HIDE DEF b, r, f, X, k
  <2> DEFINE c == 1
  <2>5. c \in Int /\ \A y \in T : r[y] \in Int /\ m[b[y]] = r[y] * c
    BY <2>3
  <2> HIDE DEF c
  <2>6. Total(m, {b[y] : y \in T}) = Total(r, T) * c
    BY <2>2, <2>5, TotalScaled
  <2>7. Total(r, T) \in Int
    BY <2>3, TotalInt
  <2> DEFINE z == Total(r, T)
  <2> HIDE DEF z
  <2>8. z * c = z
    BY <2>7 DEF z, c
  <2>9. QED BY <2>1, <2>4, <2>6, <2>8 DEF z
<1>4. ASSUME NEW y \in T PROVE g[y] = Total(m, {p \in X : l[p] = y})
  <2> DEFINE b == [x \in S |-> <<x, y>>]
             r == [x \in S |-> m[<<x, y>>]]
  <2>1. {b[x] : x \in S} = {p \in X : l[p] = y}
    OBVIOUS
  <2>2. \A x, z \in S : b[x] = b[z] => x = z
    OBVIOUS
  <2>3. \A x \in S : r[x] \in Int /\ m[b[x]] = r[x] * 1
    OBVIOUS
  <2>4. g[y] = Total(r, S)
    BY DEF Column
  <2> HIDE DEF b, r, g, X, l
  <2> DEFINE c == 1
  <2>5. c \in Int /\ \A x \in S : r[x] \in Int /\ m[b[x]] = r[x] * c
    BY <2>3
  <2> HIDE DEF c
  <2>6. Total(m, {b[x] : x \in S}) = Total(r, S) * c
    BY <2>2, <2>5, TotalScaled
  <2>7. Total(r, S) \in Int
    BY <2>3, TotalInt
  <2> DEFINE z == Total(r, S)
  <2> HIDE DEF z
  <2>8. z * c = z
    BY <2>7 DEF z, c
  <2>9. QED BY <2>1, <2>4, <2>6, <2>8 DEF z
<1> HIDE DEF X, f, g, k, l
<1>5. ByClass(X, S, k, m, f)
  BY <1>2, <1>3 DEF ByClass
<1>6. ByClass(X, T, l, m, g)
  BY <1>2, <1>4 DEF ByClass
<1>7. Total(f, S) = Total(m, X)
  BY <1>1, <1>5, TotalByClass
<1>8. Total(g, T) = Total(m, X)
  BY <1>1, <1>6, TotalByClass
<1>9. QED BY <1>7, <1>8 DEF f, g

(* The rows of a matrix mixed with weights.                                    *)
Mixed(v, W, S, T) == [y \in T |-> Total([x \in S |-> v[x] * W[x][y]], S)]

(* Mixing rows that all sum up to c multiplies the weights by c.               *)
LEMMA MixedTotal ==
  ASSUME NEW S, IsFiniteSet(S), NEW T, IsFiniteSet(T), NEW v \in [S -> Nat],
         NEW W \in [S -> [T -> Nat]], NEW c \in Int, \A x \in S : Total(W[x], T) = c
  PROVE  Total(Mixed(v, W, S, T), T) = Total(v, S) * c
<1> DEFINE m == [p \in S \X T |-> v[p[1]] * W[p[1]][p[2]]]
           f == [x \in S |-> Row(m, T, x)]
<1>1. ASSUME NEW x \in S, NEW y \in T
      PROVE  m[<<x, y>>] = v[x] * W[x][y] /\ m[<<x, y>>] \in Int
  <2> DEFINE a == v[x]
             d == W[x][y]
  <2>1. a \in Nat /\ d \in Nat /\ m[<<x, y>>] = a * d
    OBVIOUS
  <2> HIDE DEF a, d, m
  <2>2. m[<<x, y>>] \in Int
    BY <2>1
  <2>3. QED BY <2>1, <2>2 DEF a, d
<1>2. Mixed(v, W, S, T) = [y \in T |-> Column(m, S, y)]
  <2>1. ASSUME NEW y \in T PROVE Total([x \in S |-> v[x] * W[x][y]], S) = Column(m, S, y)
    <3>1. [x \in S |-> v[x] * W[x][y]] = [x \in S |-> m[<<x, y>>]]
      <4> HIDE DEF m
      <4>1. QED BY <1>1
    <3>2. QED BY <3>1 DEF Column
  <2> HIDE DEF m
  <2>2. QED BY <2>1 DEF Mixed
<1>3. ASSUME NEW x \in S PROVE f[x] = v[x] * c
  <2> DEFINE r == [y \in T |-> m[<<x, y>>]]
             w == W[x]
             a == v[x]
  <2>1. a \in Int /\ \A y \in T : w[y] \in Int /\ r[y] = w[y] * a
    <3>1. ASSUME NEW y \in T PROVE r[y] = w[y] * a
      <4> DEFINE d == w[y]
      <4>1. r[y] = a * d /\ a \in Nat /\ d \in Nat
        BY <1>1
      <4> HIDE DEF a, d, r
      <4>2. a * d = d * a
        BY <4>1
      <4>3. QED BY <4>1, <4>2 DEF d
    <3> HIDE DEF m, r
    <3>2. QED BY <3>1
  <2>2. Total(w, T) = c /\ f[x] = Total(r, T)
    BY DEF Row
  <2> HIDE DEF r, w, a, f, m
  <2>3. \A y \in T : w[y] \in Int /\ r[y] = w[y] * a
    BY <2>1
  <2>4. Total(r, T) = Total(w, T) * a
    BY <2>1, <2>3, TotalTimes
  <2>5. f[x] = c * a
    BY <2>2, <2>4
  <2>6. c * a = a * c
    BY <2>1
  <2>7. QED BY <2>5, <2>6 DEF a
<1> HIDE DEF m
<1>4. Total(f, S) = Total([y \in T |-> Column(m, S, y)], T)
  <2>1. \A x \in S, y \in T : m[<<x, y>>] \in Int
    BY <1>1
  <2>2. QED BY <2>1, TotalSwap
<1> HIDE DEF f
<1>5. \A x \in S : v[x] \in Int /\ f[x] = v[x] * c
  BY <1>3
<1>6. Total(f, S) = Total(v, S) * c
  BY <1>5, TotalTimes
<1>7. QED BY <1>2, <1>4, <1>6

(* What is at least the threshold is no anomaly.                               *)
LEMMA AtLeastThreshold ==
  ASSUME NEW a \in Int, NEW D \in Nat, NEW num \in Int, NEW thr,
         thr[1] = num, thr[2] = D, num <= a * D
  PROVE  ~ IsAnomaly(a, thr)
BY DEF IsAnomaly

(* The scores a quantile rejects are the first ones, up to its position.       *)
LEMMA QuantileRejects ==
  ASSUME NEW s \in Seq(Int), Len(s) > 0, Sorted(s),
         NEW N \in Nat, NEW D \in Nat \ {0}, N < D
  PROVE  \E C \in Nat : /\ Rejected(s, Quantile(s, <<N, D>>)) \subseteq 1 .. C
                        /\ C * D < (Len(s) - 1) * N + D
<1> DEFINE q == <<N, D>>
           n == Len(s)
           P == Position(n, q)
           R == Remainder(n, q)
           below == Rejected(s, Quantile(s, q))
<1>1. n \in Nat /\ n > 0 /\ DOMAIN s = 1 .. n
  OBVIOUS
<1>2. (n - 1) * N \in Nat
  BY <1>1
<1>3. /\ P \in Nat /\ R \in Nat /\ R < D
      /\ (n - 1) * N = P * D + R
  BY <1>2, DivMod DEF Position, Remainder
<1> HIDE DEF n, P, R, below
<1>4. P <= n - 1 /\ (R > 0 => P < n - 1)
  <2>1. (n - 1) * N <= (n - 1) * D
    BY <1>1
  <2>2. P * D + R <= (n - 1) * D
    BY <1>3, <2>1
  <2>3. ASSUME P >= n PROVE FALSE
    <3>1. n * D <= P * D
      BY <1>1, <1>3, <2>3, TimesMonotone
    <3>2. n * D = (n - 1) * D + D
      BY <1>1
    <3>3. QED BY <1>1, <1>2, <1>3, <2>2, <3>1, <3>2
  <2>4. ASSUME R > 0, P = n - 1 PROVE FALSE
    BY <1>1, <1>3, <2>2, <2>4
  <2>5. QED BY <1>1, <1>3, <2>3, <2>4
<1>5. /\ s[P + 1] \in Int
      /\ \A i \in 1 .. n : s[i] \in Int
      /\ \A i, j \in 1 .. n : i <= j => s[i] <= s[j]
  BY <1>1, <1>3, <1>4 DEF Sorted
<1>6. CASE R = 0
  <2> DEFINE hi == IF P + 1 < n THEN (P + 1) + 1 ELSE P + 1
  <2>1. Quantile(s, q)[1] = s[P + 1] * D /\ Quantile(s, q)[2] = D
    <3>1. Quantile(s, q) = <<s[P + 1] * D + R * (s[hi] - s[P + 1]), D>>
      BY DEF Quantile, n, P, R
    <3>2. hi \in 1 .. n
      BY <1>1, <1>3, <1>4
    <3>3. s[hi] - s[P + 1] \in Int
      BY <1>5, <3>2
    <3> HIDE DEF hi
    <3>4. R * (s[hi] - s[P + 1]) = 0
      BY <1>6, <3>3
    <3>5. s[P + 1] * D + 0 = s[P + 1] * D
      BY <1>5
    <3>6. QED BY <3>1, <3>4, <3>5
  <2>2. ASSUME NEW i \in 1 .. n, i > P PROVE i \notin below
    <3>1. s[P + 1] <= s[i] /\ s[i] \in Int
      BY <1>1, <1>3, <1>4, <1>5, <2>2
    <3>2. s[P + 1] * D <= s[i] * D
      BY <1>5, <3>1, TimesMonotone
    <3>3. s[P + 1] * D \in Int
      BY <1>5, TimesInt
    <3>4. ~ IsAnomaly(s[i], Quantile(s, q))
      BY <2>1, <3>1, <3>2, <3>3, AtLeastThreshold
    <3>5. QED BY <3>4 DEF Rejected, below
  <2>3. below \subseteq 1 .. P
    BY <1>1, <1>3, <2>2 DEF below, Rejected
  <2>4. P * D < (n - 1) * N + D
    <3> DEFINE b == (n - 1) * N
               c == P * D
    <3>1. b \in Nat /\ b = c + R /\ c \in Int
      BY <1>2, <1>3, TimesInt
    <3> HIDE DEF b, c
    <3>2. c < b + D
      BY <1>6, <3>1
    <3>3. QED BY <3>2 DEF b, c
  <2>5. QED BY <1>3, <2>3, <2>4 DEF below, n, q
<1>7. CASE R > 0
  <2> DEFINE d == s[P + 2] - s[P + 1]
  <2>1. s[P + 2] \in Int /\ s[P + 1] <= s[P + 2] /\ d \in Nat
    BY <1>1, <1>3, <1>4, <1>5, <1>7
  <2> HIDE DEF d
  <2>2. Quantile(s, q)[1] = s[P + 1] * D + R * d /\ Quantile(s, q)[2] = D
    <3>1. P + 1 < n /\ (P + 1) + 1 = P + 2
      BY <1>1, <1>3, <1>4, <1>7
    <3>2. Quantile(s, q) = <<s[P + 1] * D + R * d, D>>
      BY <3>1 DEF Quantile, n, P, R, d
    <3>3. QED BY <3>2
  <2>3. s[P + 1] * D + R * d <= s[P + 2] * D
    <3>1. R * d <= D * d
      BY <1>3, <2>1, TimesMonotone
    <3>2. s[P + 1] * D + D * d = s[P + 2] * D
      BY <1>5, <2>1 DEF d
    <3>3. /\ s[P + 1] * D \in Int /\ s[P + 2] * D \in Int
          /\ R * d \in Int /\ D * d \in Int
      <4>1. s[P + 1] \in Int /\ s[P + 2] \in Int /\ D \in Int /\ R \in Int /\ d \in Int
        BY <1>3, <1>5, <2>1
      <4>2. QED BY <4>1, TimesInt
    <3>4. QED BY <3>1, <3>2, <3>3, SumWithin
  <2>4. ASSUME NEW i \in 1 .. n, i > P + 1 PROVE i \notin below
    <3>1. s[P + 2] <= s[i] /\ s[i] \in Int
      BY <1>1, <1>3, <1>4, <1>5, <1>7, <2>4
    <3>2. s[P + 2] * D <= s[i] * D
      BY <2>1, <3>1, TimesMonotone
    <3>3. s[P + 1] * D + R * d <= s[i] * D
      <4>1. s[P + 1] * D + R * d \in Int /\ s[P + 2] * D \in Int /\ s[i] * D \in Int
        <5>1. s[P + 1] * D \in Int /\ s[P + 2] * D \in Int /\ s[i] * D \in Int
          <6>1. s[P + 1] \in Int /\ s[P + 2] \in Int /\ s[i] \in Int /\ D \in Int
            BY <1>5, <2>1, <3>1
          <6>2. QED BY <6>1, TimesInt
        <5>2. R * d \in Int
          BY <1>3, <2>1, TimesInt
        <5>3. QED BY <5>1, <5>2
      <4>2. QED BY <4>1, <2>3, <3>2
    <3>4. s[P + 1] * D + R * d \in Int
      <4>1. s[P + 1] * D \in Int /\ R * d \in Int
        BY <1>3, <1>5, <2>1, TimesInt
      <4>2. QED BY <4>1
    <3>5. ~ IsAnomaly(s[i], Quantile(s, q))
      BY <2>2, <3>1, <3>3, <3>4, AtLeastThreshold
    <3>6. QED BY <3>5 DEF Rejected, below
  <2>5. below \subseteq 1 .. (P + 1)
    <3>1. below \subseteq 1 .. n
      BY <1>1 DEF below, Rejected
    <3>2. QED BY <1>1, <1>3, <2>4, <3>1
  <2>6. (P + 1) * D < (n - 1) * N + D
    <3>1. (P + 1) * D = P * D + D
      BY <1>3
    <3>2. QED BY <1>3, <1>7, <3>1
  <2>7. P + 1 \in Nat
    BY <1>3
  <2>8. QED BY <2>5, <2>6, <2>7 DEF below, n, q
<1>8. R = 0 \/ R > 0
  BY <1>3
<1>9. QED BY <1>6, <1>7, <1>8

(* The quantile of a sorted sample rejects fewer of its scores than the        *)
(* target's share of all but one of them, plus one.                            *)
THEOREM QuantileBound ==
  ASSUME NEW s \in Seq(Int), s # <<>>, Sorted(s),
         NEW q \in Fraction, q[1] < q[2]
  PROVE  Cardinality(Rejected(s, Quantile(s, q))) * q[2] < (Len(s) - 1) * q[1] + q[2]
<1> DEFINE rejected == Rejected(s, Quantile(s, q))
<1>1. PICK N \in Nat, D \in Nat \ {0} : q = <<N, D>> /\ N < D
  BY DEF Fraction
<1>2. Len(s) \in Nat /\ Len(s) > 0
  OBVIOUS
<1>3. PICK C \in Nat : rejected \subseteq 1 .. C /\ C * D < (Len(s) - 1) * N + D
  BY <1>1, <1>2, QuantileRejects
<1> HIDE DEF rejected
<1>4. Cardinality(rejected) \in Nat /\ Cardinality(rejected) <= C
  <2>1. IsFiniteSet(1 .. C) /\ Cardinality(1 .. C) = C
    <3>1. 1 \in Int /\ C \in Int /\ ~ (1 > C /\ C # 0) /\ C - 1 + 1 = C
      OBVIOUS
    <3>2. QED BY <3>1, FS_Interval
  <2>2. QED BY <1>3, <2>1, FS_Subset, FS_CardinalityType
<1>5. Cardinality(rejected) * D <= C * D
  BY <1>4, TimesMonotone
<1>6. (Len(s) - 1) * N + D \in Int /\ C * D \in Int /\ Cardinality(rejected) * D \in Int
  BY <1>2, <1>4
<1>7. Cardinality(rejected) * D < (Len(s) - 1) * N + D
  BY <1>3, <1>5, <1>6
<1>8. QED BY <1>1, <1>7 DEF rejected
------------------------------------------------------------------------------
(* A larger target never lowers the quantile.                                  *)

(* What the quantile adds to its lower score, per unit of the remainder.       *)
Gap(s, q) ==
  LET lo == Position(Len(s), q) + 1
  IN  s[IF lo < Len(s) THEN lo + 1 ELSE lo] - s[lo]

(* The parts a quantile is made of.                                            *)
LEMMA QuantileParts ==
  ASSUME NEW s \in Seq(Int), Len(s) > 0, Sorted(s),
         NEW N \in Nat, NEW D \in Nat \ {0}, N < D
  PROVE  LET P == Position(Len(s), <<N, D>>)
             R == Remainder(Len(s), <<N, D>>)
             d == Gap(s, <<N, D>>)
         IN  /\ P \in Nat /\ R \in Nat /\ R < D /\ (Len(s) - 1) * N = P * D + R
             /\ P + 1 \in 1 .. Len(s) /\ d \in Nat
             /\ P + 1 < Len(s) => d = s[P + 2] - s[P + 1]
             /\ Quantile(s, <<N, D>>) = <<s[P + 1] * D + R * d, D>>
<1> DEFINE n == Len(s)
           P == Position(n, <<N, D>>)
           R == Remainder(n, <<N, D>>)
           d == Gap(s, <<N, D>>)
<1>1. n \in Nat /\ n > 0 /\ DOMAIN s = 1 .. n /\ (n - 1) * N \in Nat
  OBVIOUS
<1>2. /\ P \in Nat /\ R \in Nat /\ R < D
      /\ (n - 1) * N = P * D + R
  BY <1>1, DivMod DEF Position, Remainder
<1> HIDE DEF n, P, R, d
<1>3. P <= n - 1
  <2>1. (n - 1) * N <= (n - 1) * D
    BY <1>1
  <2>2. ASSUME P >= n PROVE FALSE
    <3>1. n * D <= P * D
      BY <1>1, <1>2, <2>2, TimesMonotone
    <3>2. n * D = (n - 1) * D + D
      BY <1>1
    <3>3. QED BY <1>1, <1>2, <2>1, <3>1, <3>2
  <2>3. QED BY <1>1, <1>2, <2>2
<1>4. /\ P + 1 \in 1 .. n
      /\ \A i \in 1 .. n : s[i] \in Int
      /\ \A i, j \in 1 .. n : i <= j => s[i] <= s[j]
  BY <1>1, <1>2, <1>3 DEF Sorted
<1> DEFINE hi == IF P + 1 < n THEN (P + 1) + 1 ELSE P + 1
<1>5. hi \in 1 .. n /\ P + 1 <= hi /\ (P + 1 < n => hi = P + 2)
  BY <1>1, <1>2, <1>4
<1>6. d = s[hi] - s[P + 1]
  BY DEF Gap, d, P, n
<1>7. Quantile(s, <<N, D>>) = <<s[P + 1] * D + R * (s[hi] - s[P + 1]), D>>
  BY DEF Quantile, P, R, n
<1> HIDE DEF hi
<1>8. d \in Nat
  BY <1>4, <1>5, <1>6
<1>9. QED BY <1>2, <1>4, <1>5, <1>6, <1>7, <1>8 DEF n, P, R, d

(* A target that is not smaller has a position that is not lower.              *)
LEMMA PositionsOrdered ==
  ASSUME NEW L \in Nat, NEW N \in Nat, NEW D \in Nat \ {0}, NEW M \in Nat, NEW E \in Nat \ {0},
         NEW P \in Nat, NEW R \in Nat, NEW Q \in Nat, NEW S \in Nat,
         L * N = P * D + R, L * M = Q * E + S, R < D, S < E, N * E <= M * D
  PROVE  P <= Q /\ (P = Q => R * E <= S * D)
<1>1. (N * E) * L <= (M * D) * L
  <2>1. N * E \in Int /\ M * D \in Int
    BY TimesInt
  <2>2. QED BY <2>1, TimesMonotone
<1>2. (N * E) * L = (L * N) * E /\ (M * D) * L = (L * M) * D
  OBVIOUS
<1>3. (P * D + R) * E <= (Q * E + S) * D
  BY <1>1, <1>2
<1>4. ASSUME P > Q PROVE FALSE
  <2>1. (Q + 1) * D <= P * D
    BY <1>4, TimesMonotone
  <2>2. (Q + 1) * D <= P * D + R
    <3>1. (Q + 1) * D \in Int /\ P * D \in Int
      BY TimesInt
    <3>2. QED BY <2>1, <3>1
  <2>3. ((Q + 1) * D) * E <= (P * D + R) * E
    <3>1. (Q + 1) * D \in Int /\ P * D + R \in Int
      BY TimesInt
    <3>2. QED BY <2>2, <3>1, TimesMonotone
  <2>4. Q * E + S < (Q + 1) * E
    BY TimesInt
  <2>5. Q * E + S + 1 <= (Q + 1) * E
    <3>1. Q * E \in Int /\ (Q + 1) * E \in Int
      BY TimesInt
    <3>2. QED BY <2>4, <3>1
  <2>6. (Q * E + S + 1) * D <= ((Q + 1) * E) * D
    <3>1. Q * E + S + 1 \in Int /\ (Q + 1) * E \in Int
      BY TimesInt
    <3>2. QED BY <2>5, <3>1, TimesMonotone
  <2>7. (Q * E + S + 1) * D = (Q * E + S) * D + D
    <3>1. Q * E + S \in Int
      BY TimesInt
    <3>2. QED BY <3>1
  <2>8. ((Q + 1) * E) * D = ((Q + 1) * D) * E
    OBVIOUS
  <2>9. /\ (Q * E + S) * D \in Int /\ ((Q + 1) * D) * E \in Int /\ (P * D + R) * E \in Int
    OBVIOUS
  <2>10. QED BY <1>3, <2>3, <2>6, <2>7, <2>8, <2>9
<1>5. ASSUME P = Q PROVE R * E <= S * D
  <2>1. (P * D + R) * E = (P * D) * E + R * E /\ (Q * E + S) * D = (P * D) * E + S * D
    BY <1>5
  <2>2. (P * D) * E \in Int /\ R * E \in Int /\ S * D \in Int
    OBVIOUS
  <2>3. QED BY <1>3, <2>1, <2>2
<1>6. QED BY <1>4, <1>5

(* Between the same two scores, the larger remainder is the larger value.      *)
LEMMA SameCell ==
  ASSUME NEW a \in Int, NEW d \in Nat, NEW D \in Nat \ {0}, NEW E \in Nat \ {0},
         NEW R \in Nat, NEW S \in Nat, R * E <= S * D
  PROVE  (a * D + R * d) * E <= (a * E + S * d) * D
<1>1. (R * E) * d <= (S * D) * d
  <2>1. R * E \in Int /\ S * D \in Int
    BY TimesInt
  <2>2. QED BY <2>1, TimesMonotone
<1>2. /\ (a * D + R * d) * E = (a * D) * E + (R * E) * d
      /\ (a * E + S * d) * D = (a * D) * E + (S * D) * d
  OBVIOUS
<1>3. (a * D) * E \in Int /\ (R * E) * d \in Int /\ (S * D) * d \in Int
  OBVIOUS
<1>4. QED BY <1>1, <1>2, <1>3

(* Below the upper score of a lower cell is below the lower score of a higher. *)
LEMMA HigherCell ==
  ASSUME NEW a \in Int, NEW b \in Int, NEW c \in Int, NEW d \in Nat, NEW e \in Nat,
         NEW D \in Nat \ {0}, NEW E \in Nat \ {0}, NEW R \in Nat, NEW S \in Nat,
         d = b - a, R < D, b <= c
  PROVE  (a * D + R * d) * E <= (c * E + S * e) * D
<1>1. R * d <= D * d
  BY TimesMonotone
<1>2. a * D + D * d = b * D
  OBVIOUS
<1>3. b * D <= c * D
  BY TimesMonotone
<1>4. /\ a * D \in Int /\ R * d \in Int /\ D * d \in Int /\ b * D \in Int /\ c * D \in Int
      /\ S * e \in Nat
  OBVIOUS
<1>5. a * D + R * d <= c * D
  BY <1>1, <1>2, <1>3, <1>4
<1>6. (a * D + R * d) * E <= (c * D) * E
  BY <1>4, <1>5, TimesMonotone
<1>7. (c * E + S * e) * D = (c * D) * E + (S * e) * D /\ (S * e) * D \in Nat
  BY <1>4
<1>8. (a * D + R * d) * E \in Int /\ (c * D) * E \in Int
  BY <1>4, TimesInt
<1>9. QED BY <1>6, <1>7, <1>8

(* The quantile of a sample grows with the target.                             *)
THEOREM QuantileMonotone ==
  ASSUME NEW s \in Seq(Int), s # <<>>, Sorted(s),
         NEW p \in Fraction, p[1] < p[2], NEW q \in Fraction, q[1] < q[2], AtMost(p, q)
  PROVE  AtMost(Quantile(s, p), Quantile(s, q))
<1>1. PICK N \in Nat, D \in Nat \ {0} : p = <<N, D>> /\ N < D
  BY DEF Fraction
<1>2. PICK M \in Nat, E \in Nat \ {0} : q = <<M, E>> /\ M < E
  BY DEF Fraction
<1>3. N * E <= M * D
  BY <1>1, <1>2 DEF AtMost
<1>4. Len(s) \in Nat /\ Len(s) > 0 /\ DOMAIN s = 1 .. Len(s) /\ Len(s) - 1 \in Nat
  OBVIOUS
<1> DEFINE P == Position(Len(s), <<N, D>>)
           R == Remainder(Len(s), <<N, D>>)
           d == Gap(s, <<N, D>>)
           Q == Position(Len(s), <<M, E>>)
           S == Remainder(Len(s), <<M, E>>)
           e == Gap(s, <<M, E>>)
<1>5. /\ P \in Nat /\ R \in Nat /\ R < D /\ (Len(s) - 1) * N = P * D + R
      /\ P + 1 \in 1 .. Len(s) /\ d \in Nat
      /\ P + 1 < Len(s) => d = s[P + 2] - s[P + 1]
      /\ Quantile(s, <<N, D>>) = <<s[P + 1] * D + R * d, D>>
  BY <1>1, <1>4, QuantileParts
<1>6. /\ Q \in Nat /\ S \in Nat /\ S < E /\ (Len(s) - 1) * M = Q * E + S
      /\ Q + 1 \in 1 .. Len(s) /\ e \in Nat
      /\ Q + 1 < Len(s) => e = s[Q + 2] - s[Q + 1]
      /\ Quantile(s, <<M, E>>) = <<s[Q + 1] * E + S * e, E>>
  BY <1>2, <1>4, QuantileParts
<1>7. P = Q => d = e
  BY DEF Gap
<1> HIDE DEF P, R, d, Q, S, e
<1>8. P <= Q /\ (P = Q => R * E <= S * D)
  <2> DEFINE L == Len(s) - 1
  <2>1. /\ L \in Nat /\ L * N = P * D + R /\ L * M = Q * E + S
        /\ P \in Nat /\ R \in Nat /\ Q \in Nat /\ S \in Nat /\ R < D /\ S < E
    BY <1>4, <1>5, <1>6
  <2> HIDE DEF L
  <2>2. QED BY <1>3, <2>1, PositionsOrdered
<1>9. s[P + 1] \in Int /\ s[Q + 1] \in Int
  BY <1>4, <1>5, <1>6
<1>10. (s[P + 1] * D + R * d) * E <= (s[Q + 1] * E + S * e) * D
  <2>1. CASE P = Q
    <3>1. R * E <= S * D /\ d = e /\ s[Q + 1] = s[P + 1]
      BY <1>7, <1>8, <2>1
    <3>2. (s[P + 1] * D + R * d) * E <= (s[P + 1] * E + S * d) * D
      BY <1>5, <1>6, <1>9, <3>1, SameCell
    <3>3. QED BY <3>1, <3>2
  <2>2. CASE P < Q
    <3>1. P \in Nat /\ Q \in Nat /\ Q + 1 \in 1 .. Len(s)
      BY <1>5, <1>6
    <3>2. P + 2 \in 1 .. Len(s) /\ P + 2 <= Q + 1 /\ P + 1 < Len(s)
      BY <1>4, <2>2, <3>1
    <3>3. s[P + 2] \in Int /\ s[P + 2] <= s[Q + 1]
      <4>1. \A i, j \in 1 .. Len(s) : i <= j => s[i] \in Int /\ s[i] <= s[j]
        BY <1>4 DEF Sorted
      <4>2. QED BY <3>1, <3>2, <4>1
    <3>4. d = s[P + 2] - s[P + 1]
      BY <1>5, <3>2
    <3>5. QED BY <1>5, <1>6, <1>9, <3>3, <3>4, HigherCell
  <2>3. QED BY <1>5, <1>6, <1>8, <2>1, <2>2
<1>11. QED BY <1>1, <1>2, <1>5, <1>6, <1>10 DEF AtMost

------------------------------------------------------------------------------
(* All models a detector holds stem from its last training.                    *)
THEOREM SingleTraining == Spec => []OneTraining
<1>1. Init => OneTraining
  BY DEF Init, OneTraining, Covered, NoModels
<1>2. OneTraining /\ [Next]_vars => OneTraining'
  <2>1. SUFFICES ASSUME OneTraining, [Next]_vars
                 PROVE  OneTraining'
    OBVIOUS
  <2>2. ASSUME NEW b \in Batches, Train(b) PROVE OneTraining'
    BY <2>2 DEF Train, KeptModels, NoModels, OneTraining, Covered
  <2>3. CASE Calibrate
    BY <2>1, <2>3 DEF Calibrate, OneTraining, Covered
  <2>4. CASE Skip \/ FitMember \/ TrainRaises \/ Return \/ UNCHANGED vars
    BY <2>1, <2>4 DEF Skip, FitMember, TrainRaises, Return, vars, OneTraining, Covered
  <2>5. QED BY <2>1, <2>2, <2>3, <2>4 DEF Next
<1>3. QED BY <1>1, <1>2, PTL DEF Spec

(* A covered partition has a model all of whose HMMs are fitted.  FitMember    *)
(* cannot disturb one: a model it works on is not complete.                    *)
THEOREM AlwaysAskable == Spec => []AssessNeverRaises
<1>1. Init => AssessNeverRaises
  BY DEF Init, AssessNeverRaises, Covered, NoModels
<1>2. AssessNeverRaises /\ [Next]_vars => AssessNeverRaises'
  <2>1. SUFFICES ASSUME AssessNeverRaises, [Next]_vars
                 PROVE  AssessNeverRaises'
    OBVIOUS
  <2>2. ASSUME NEW b \in Batches, Train(b) PROVE AssessNeverRaises'
    BY <2>2 DEF Train, KeptModels, NoModels, AssessNeverRaises, Covered
  <2>3. CASE FitMember
    <3>1. ASSUME NEW k \in DOMAIN models PROVE k # NextKey
      <4>1. k \in DOMAIN members /\ members[k] = Ensemble
        BY <2>1, <3>1 DEF AssessNeverRaises, Covered
      <4>2. Fitted(k) = Ensemble
        BY <4>1 DEF Fitted
      <4>3. Fitted(NextKey) < Ensemble
        BY <2>3 DEF FitMember
      <4>4. QED BY <4>2, <4>3, TrainingAssumption
    <3>2. models' = models
      BY <2>3 DEF FitMember
    <3>3. ASSUME NEW k \in DOMAIN models
          PROVE  k \in DOMAIN members' /\ members'[k] = Ensemble
      BY <2>1, <2>3, <3>1, <3>3 DEF FitMember, AssessNeverRaises, Covered
    <3>4. QED BY <3>2, <3>3 DEF AssessNeverRaises, Covered
  <2>4. CASE Calibrate
    <3>1. NextKey \in DOMAIN members /\ members[NextKey] = Ensemble
      BY <2>4, TrainingAssumption DEF Calibrate, Ready, Fitted
    <3>2. DOMAIN models' = DOMAIN models \cup {NextKey} /\ members' = members
      BY <2>4 DEF Calibrate
    <3>3. QED BY <2>1, <3>1, <3>2 DEF AssessNeverRaises, Covered
  <2>5. CASE Skip \/ TrainRaises \/ Return \/ UNCHANGED vars
    BY <2>1, <2>5 DEF Skip, TrainRaises, Return, vars, AssessNeverRaises, Covered
  <2>6. QED BY <2>1, <2>2, <2>3, <2>4, <2>5 DEF Next
<1>3. QED BY <1>1, <1>2, PTL DEF Spec

------------------------------------------------------------------------------
(* The first flow of a partition that has flows.                               *)
LEMMA ArrivalNat ==
  ASSUME NEW flows \in Seq(Keys), NEW k \in Groups(flows)
  PROVE  Arrival(flows, k) \in Nat
<1>1. Flows(flows, k) \in SUBSET Nat /\ Flows(flows, k) # {}
  BY DEF Flows, Groups
<1>2. \E i \in Flows(flows, k) : \A j \in Flows(flows, k) : i <= j
  BY <1>1, LeastExists
<1>3. Arrival(flows, k) \in Flows(flows, k)
  BY <1>2 DEF Arrival
<1>4. QED BY <1>1, <1>3

(* The partition looked at next is one that is left, and arrived first.        *)
LEMMA NextKeyFirst ==
  ASSUME batch.normal \in Seq(Keys), todo \subseteq Groups(batch.normal), todo # {}
  PROVE  /\ NextKey \in todo
         /\ \A m \in todo : Arrival(batch.normal, NextKey) <= Arrival(batch.normal, m)
<1> DEFINE arrivals == {Arrival(batch.normal, k) : k \in todo}
<1>1. arrivals \in SUBSET Nat /\ arrivals # {}
  BY ArrivalNat
<1>2. PICK n \in arrivals : \A m \in arrivals : n <= m
  BY <1>1, LeastExists
<1>3. \E k \in todo : \A m \in todo : Arrival(batch.normal, k) <= Arrival(batch.normal, m)
  BY <1>2
<1>4. QED BY <1>3 DEF NextKey

(* A batch is a sequence of partitions and a sample for each partition.        *)
LEMMA BatchType ==
  ASSUME NEW b \in Batches \cup {NoFlows}
  PROVE  /\ b.normal \in Seq(Keys)
         /\ \A k \in Keys : b.validation[k] # <<>> => b.validation[k] \in Samples
<1>1. CASE b \in Batches
  BY <1>1, TrainingAssumption
<1>2. CASE b = NoFlows
  BY <1>2 DEF NoFlows
<1>3. QED BY <1>1, <1>2

(* What the loop keeps up: the partitions it is done with are covered if they  *)
(* qualify, and a model has the quantile of its own partition's scores.        *)
LoopInv ==
  /\ pc = "idle" => todo = {}
  /\ pc = "loop" => trainings \in 1 .. MaxTrainings
  /\ \A k \in Covered : k \in Groups(batch.normal) /\ Fittable(batch, k)
  /\ \A k \in Covered : models[k].threshold = Quantile(batch.validation[k], target)
  /\ pc = "loop" => \A k \in Groups(batch.normal) \ todo : Fittable(batch, k) => k \in Covered

TrainingInv == TypeOK /\ LoopInv /\ CoverageIsPrefix

(* It holds before the first training.                                         *)
LEMMA InitTrainingInv == Init => TrainingInv
<1> SUFFICES ASSUME Init PROVE TrainingInv
  OBVIOUS
<1>1. Covered = {} /\ DOMAIN members = {}
  BY DEF Init, Covered, NoModels
<1>2. TypeOK
  BY <1>1, TrainingAssumption DEF Init, TypeOK, NoModels
<1>3. LoopInv /\ CoverageIsPrefix
  BY <1>1 DEF Init, LoopInv, CoverageIsPrefix
<1>4. QED BY <1>2, <1>3 DEF TrainingInv

(* Calling train() drops the models and has all partitions to look at.         *)
LEMMA TrainKeeps ==
  ASSUME TrainingInv, NEW b \in Batches, Train(b)
  PROVE  TrainingInv'
<1>1. Covered' = {} /\ DOMAIN members' = {} /\ members' = NoModels
  BY DEF Train, KeptModels, NoModels, Covered
<1>2. TypeOK'
  BY <1>1, TrainingAssumption DEF Train, TrainingInv, TypeOK, NoModels
<1>3. LoopInv'
  BY <1>1, TrainingAssumption DEF Train, TrainingInv, TypeOK, LoopInv
<1>4. CoverageIsPrefix'
  BY <1>1 DEF Train, TrainingInv, CoverageIsPrefix
<1>5. QED BY <1>2, <1>3, <1>4 DEF TrainingInv

(* A partition that does not qualify is left out for good reason.              *)
LEMMA SkipKeeps ==
  ASSUME TrainingInv, Skip
  PROVE  TrainingInv'
<1>1. TypeOK'
  BY DEF Skip, TrainingInv, TypeOK, Covered, Fittable
<1>2. LoopInv'
  BY DEF Skip, TrainingInv, LoopInv, Covered, Fittable
<1>3. CoverageIsPrefix'
  BY <1>2 DEF Skip, TrainingInv, LoopInv, CoverageIsPrefix, Covered, Fittable
<1>4. QED BY <1>1, <1>2, <1>3 DEF TrainingInv

(* Fitting a member changes no model that is kept.                             *)
LEMMA FitMemberKeeps ==
  ASSUME TrainingInv, FitMember
  PROVE  TrainingInv'
<1>1. members' \in [DOMAIN members' -> 0 .. Ensemble]
  <2>1. Fitted(NextKey) \in 0 .. Ensemble /\ Fitted(NextKey) < Ensemble
    BY TrainingAssumption DEF FitMember, Fitted, TrainingInv, TypeOK
  <2>2. QED BY <2>1, TrainingAssumption DEF FitMember, TrainingInv, TypeOK
<1>2. TypeOK'
  BY <1>1 DEF FitMember, TrainingInv, TypeOK, Covered, Fittable
<1>3. LoopInv' /\ CoverageIsPrefix'
  BY DEF FitMember, TrainingInv, LoopInv, CoverageIsPrefix, Covered, Fittable
<1>4. QED BY <1>2, <1>3 DEF TrainingInv

(* A model that is kept is the next in the order of arrival: a partition that  *)
(* qualifies and arrived earlier is not left, so it is covered.                *)
LEMMA CalibrateKeeps ==
  ASSUME TrainingInv, Calibrate
  PROVE  TrainingInv'
<1>1. /\ batch \in Batches \cup {NoFlows} /\ batch' = batch
      /\ todo \subseteq Groups(batch.normal) /\ todo # {} /\ pc = "loop" /\ pc' = "loop"
      /\ target' = target /\ trainings' = trainings
  BY DEF Calibrate, Fitting, TrainingInv, TypeOK
<1>2. /\ NextKey \in todo
      /\ \A m \in todo : Arrival(batch.normal, NextKey) <= Arrival(batch.normal, m)
  BY <1>1, BatchType, NextKeyFirst
<1>3. Fittable(batch, NextKey) /\ todo' = todo \ {NextKey}
  BY DEF Calibrate, Fitting
<1>4. /\ Covered' = Covered \cup {NextKey}
      /\ \A k \in Covered \ {NextKey} : models'[k] = models[k]
      /\ models'[NextKey] = [training  |-> trainings,
                             threshold |-> Quantile(batch.validation[NextKey], target)]
  BY DEF Calibrate, Covered
<1>5. \A k \in Covered' : /\ k \in Groups(batch.normal) /\ Fittable(batch, k)
                          /\ models'[k].threshold = Quantile(batch.validation[k], target)
  BY <1>1, <1>2, <1>3, <1>4 DEF TrainingInv, LoopInv
<1>6. \A k \in Covered' : models'[k].training \in 1 .. MaxTrainings
  BY <1>1, <1>4 DEF TrainingInv, LoopInv, TypeOK
<1>7. TypeOK'
  BY <1>1, <1>3, <1>5, <1>6 DEF Calibrate, TrainingInv, TypeOK, Fittable
<1>8. LoopInv'
  BY <1>1, <1>3, <1>4, <1>5 DEF TrainingInv, LoopInv, Fittable
<1>9. CoverageIsPrefix'
  <2>1. ASSUME NEW j \in Groups(batch.normal), NEW k \in Covered', Fittable(batch, j),
               Arrival(batch.normal, j) < Arrival(batch.normal, k)
        PROVE  j \in Covered'
    <3>1. CASE k = NextKey
      <4>1. Arrival(batch.normal, j) \in Nat /\ Arrival(batch.normal, k) \in Nat
        BY <1>1, <1>2, <2>1, <3>1, BatchType, ArrivalNat
      <4>2. j \notin todo
        BY <1>2, <2>1, <3>1, <4>1
      <4>3. QED BY <1>1, <1>4, <2>1, <4>2 DEF TrainingInv, LoopInv
    <3>2. CASE k # NextKey
      BY <1>4, <1>5, <2>1, <3>2 DEF TrainingInv, CoverageIsPrefix
    <3>3. QED BY <3>1, <3>2
  <2>2. ASSUME todo' = {}, NEW k \in Groups(batch.normal)
        PROVE  k \in Covered' <=> Fittable(batch, k)
    BY <1>1, <1>3, <1>4, <1>5, <2>2 DEF TrainingInv, LoopInv
  <2>3. QED BY <1>1, <2>1, <2>2 DEF CoverageIsPrefix, Fittable
<1>10. QED BY <1>7, <1>8, <1>9 DEF TrainingInv

(* However train() ends, what is covered stays covered.                        *)
LEMMA EndKeeps ==
  ASSUME TrainingInv, TrainRaises \/ Return \/ UNCHANGED vars
  PROVE  TrainingInv'
<1>1. CASE TrainRaises
  <2>1. TypeOK'
    BY <1>1, TrainingAssumption DEF TrainRaises, TrainingInv, TypeOK, Covered, Fittable
  <2>2. LoopInv' /\ CoverageIsPrefix'
    BY <1>1 DEF TrainRaises, TrainingInv, LoopInv, CoverageIsPrefix, Covered, Fittable
  <2>3. QED BY <2>1, <2>2 DEF TrainingInv
<1>2. CASE Return
  <2>1. TypeOK'
    BY <1>2 DEF Return, TrainingInv, TypeOK, Covered, Fittable
  <2>2. LoopInv' /\ CoverageIsPrefix'
    BY <1>2 DEF Return, TrainingInv, LoopInv, CoverageIsPrefix, Covered, Fittable
  <2>3. QED BY <2>1, <2>2 DEF TrainingInv
<1>3. CASE UNCHANGED vars
  <2>1. TypeOK'
    BY <1>3 DEF vars, TrainingInv, TypeOK, Covered, Fittable
  <2>2. LoopInv' /\ CoverageIsPrefix'
    BY <1>3 DEF vars, TrainingInv, LoopInv, CoverageIsPrefix, Covered, Fittable
  <2>3. QED BY <2>1, <2>2 DEF TrainingInv
<1>4. QED BY <1>1, <1>2, <1>3

(* It is an invariant of the training.                                         *)
LEMMA TrainingInvHolds == Spec => []TrainingInv
<1>1. TrainingInv /\ [Next]_vars => TrainingInv'
  BY TrainKeeps, SkipKeeps, FitMemberKeeps, CalibrateKeeps, EndKeeps DEF Next
<1>2. QED BY <1>1, InitTrainingInv, PTL DEF Spec

(* Every variable keeps its type.                                              *)
THEOREM TrainingTypes == Spec => []TypeOK
<1>1. TrainingInv => TypeOK
  BY DEF TrainingInv
<1>2. QED BY <1>1, TrainingInvHolds, PTL

(* What is covered is a beginning of what qualifies, in the order of arrival.  *)
THEOREM PrefixCovered == Spec => []CoverageIsPrefix
<1>1. TrainingInv => CoverageIsPrefix
  BY DEF TrainingInv
<1>2. QED BY <1>1, TrainingInvHolds, PTL

(* A covered partition was calibrated on a sorted sample, at the target.       *)
LEMMA CalibratedSample ==
  ASSUME TrainingInv, NEW k \in Covered
  PROVE  /\ models[k].threshold = Quantile(batch.validation[k], target)
         /\ batch.validation[k] \in Seq(Int) /\ batch.validation[k] # <<>>
         /\ Sorted(batch.validation[k])
         /\ target \in Fraction /\ target[1] < target[2]
<1>1. /\ models[k].threshold = Quantile(batch.validation[k], target)
      /\ k \in Groups(batch.normal) /\ batch.validation[k] # <<>>
  BY DEF TrainingInv, LoopInv, Fittable
<1>2. k \in Keys
  BY <1>1, BatchType DEF TrainingInv, TypeOK, Groups
<1>3. batch.validation[k] \in Samples
  BY <1>1, <1>2, BatchType DEF TrainingInv, TypeOK
<1>4. batch.validation[k] \in Seq(Int) /\ Sorted(batch.validation[k])
  BY <1>3, TrainingAssumption
<1>5. target \in Fraction /\ target[1] < target[2]
  BY TrainingAssumption DEF TrainingInv, TypeOK
<1>6. QED BY <1>1, <1>4, <1>5

(* No model of a detector rejects more than its target allows.                 *)
THEOREM FalsePositiveBound == Spec => []RejectsAtMostTarget
<1>1. ASSUME TrainingInv PROVE RejectsAtMostTarget
  BY <1>1, CalibratedSample, QuantileBound DEF RejectsAtMostTarget
<1>2. QED BY <1>1, TrainingInvHolds, PTL

(* A detector with a larger target, trained on the same flows, has no lower    *)
(* threshold in any partition: it blocks whatever this one blocks.             *)
THEOREM TargetMonotone == Spec => []LargerTargetBlocksMore
<1>1. ASSUME TrainingInv PROVE LargerTargetBlocksMore
  <2> SUFFICES ASSUME NEW k \in Covered, NEW q \in Targets, AtMost(target, q)
               PROVE  AtMost(models[k].threshold, Quantile(batch.validation[k], q))
    BY DEF LargerTargetBlocksMore
  <2>1. q \in Fraction /\ q[1] < q[2]
    BY TrainingAssumption
  <2>2. QED BY <1>1, <2>1, CalibratedSample, QuantileMonotone
<1>2. QED BY <1>1, TrainingInvHolds, PTL

------------------------------------------------------------------------------
(* One part at a time: what a detector's parts do as parts of it.              *)
detectorVars == <<part, vars, flowVars, oneClassVars, ensembleVars>>

(* As a part of a detector, training behaves as it does by itself.             *)
THEOREM TrainingIsAPart == DetectorSpec => Spec
<1>1. DetectorInit => Init
  BY DEF DetectorInit
<1>2. [DetectorNext]_detectorVars => [Next]_vars
  BY DEF DetectorNext, Training, Scoring, Fit, Fuse, detectorVars
<1>3. QED BY <1>1, <1>2, PTL DEF DetectorSpec, Spec, detectorVars

------------------------------------------------------------------------------
(* The symbols of a flow, and the scoring of its windows.                      *)

(* How many tokens there are is a power: eight times as many with a class more.*)
Times8(f, n) == f = [k \in 0 .. n |-> IF k = 0 THEN 1 ELSE f[k - 1] * 8]

Powers(f, n) == f[0] = 1 /\ \A k \in 1 .. n : f[k] = f[k - 1] * 8

(* There is one number of tokens, and it grows eightfold with each class.      *)
LEMMA TokenCount ==
  ASSUME NEW n \in Nat
  PROVE  \E p : /\ Powers(p, n) /\ \A k \in 0 .. n : p[k] \in Nat
                /\ Flow!NumTokens(n) = p[n]
<1> DEFINE p == CHOOSE f : Times8(f, n)
           c == [k \in 1 .. n |-> 0]
<1>1. Flow!NumTokens(n) = p[n]
  BY DEF Flow!NumTokens, Flow!NumClasses, Times8
<1>2. \E f : Times8(f, n)
  <2>1. \A k \in 1 .. n : c[k] = 0
    OBVIOUS
  <2> HIDE DEF c
  <2>2. PICK f : IsHorner(f, n, 1, 8, c)
    <3>1. \A k \in 1 .. n : c[k] \in Nat
      BY <2>1
    <3>2. 1 \in Nat /\ 8 \in Nat
      OBVIOUS
    <3>3. QED BY <3>1, <3>2, HornerExists
  <2>3. f \in [0 .. n -> Nat]
    BY <2>1, <2>2, HornerIs
  <2>4. \A k \in 0 .. n : k # 0 => f[k - 1] * 8 + c[k] = f[k - 1] * 8
    BY <2>1, <2>3
  <2>5. Times8(f, n)
    BY <2>2, <2>4 DEF IsHorner, Times8
  <2>6. QED BY <2>5
<1>3. Times8(p, n)
  BY <1>2
<1> HIDE DEF p
<1>4. p[0] = 1 /\ \A k \in 1 .. n : p[k] = p[k - 1] * 8
  BY <1>3 DEF Times8
<1> DEFINE N == {m \in Nat : m <= n => p[m] \in Nat}
<1>5. N \in SUBSET Nat /\ 0 \in N
  BY <1>4
<1>6. ASSUME NEW m \in N PROVE m + 1 \in N
  <2> SUFFICES ASSUME m + 1 <= n PROVE p[m + 1] \in Nat
    OBVIOUS
  <2>1. m + 1 \in 1 .. n /\ p[m] \in Nat /\ (m + 1) - 1 = m
    OBVIOUS
  <2>2. QED BY <1>4, <2>1
<1> HIDE DEF N
<1>7. N = Nat
  BY <1>5, <1>6, NatSetInduction
<1>8. \A k \in 0 .. n : p[k] \in Nat
  BY <1>7 DEF N
<1>9. QED BY <1>1, <1>4, <1>8 DEF Powers

(* The same for every number of classes.                                       *)
LEMMA TokenCounts ==
  /\ Flow!NumTokens(0) = 1
  /\ \A n \in Nat : /\ Flow!NumTokens(n) \in Nat \ {0}
                    /\ Flow!NumTokens(n + 1) = Flow!NumTokens(n) * 8
<1>1. ASSUME NEW n \in Nat, NEW m \in 0 .. n, NEW p, NEW q, Powers(p, n), Powers(q, m)
      PROVE  p[m] = q[m]
  <2> DEFINE N == {k \in Nat : k <= m => p[k] = q[k]}
  <2>1. N \in SUBSET Nat /\ 0 \in N
    BY <1>1 DEF Powers
  <2>2. ASSUME NEW k \in N PROVE k + 1 \in N
    <3> SUFFICES ASSUME k + 1 <= m PROVE p[k + 1] = q[k + 1]
      OBVIOUS
    <3>1. k + 1 \in 1 .. m /\ k + 1 \in 1 .. n /\ (k + 1) - 1 = k /\ p[k] = q[k]
      OBVIOUS
    <3>2. QED BY <1>1, <3>1 DEF Powers
  <2> HIDE DEF N
  <2>3. N = Nat
    BY <2>1, <2>2, NatSetInduction
  <2>4. QED BY <2>3 DEF N
<1>2. ASSUME NEW n \in Nat, NEW m \in 0 .. n, NEW p, Powers(p, n)
      PROVE  Flow!NumTokens(m) = p[m]
  <2>1. m \in Nat
    OBVIOUS
  <2>2. PICK q : Powers(q, m) /\ Flow!NumTokens(m) = q[m]
    BY <2>1, TokenCount
  <2>3. QED BY <1>1, <1>2, <2>2
<1>3. ASSUME NEW n \in Nat
      PROVE  Flow!NumTokens(0) = 1 /\ Flow!NumTokens(n + 1) = Flow!NumTokens(n) * 8
             /\ Flow!NumTokens(n) \in Nat
  <2>1. n + 1 \in Nat
    OBVIOUS
  <2>2. PICK p : (\A k \in 0 .. (n + 1) : p[k] \in Nat) /\ Powers(p, n + 1)
    BY <2>1, TokenCount
  <2>3. 0 \in 0 .. (n + 1) /\ n \in 0 .. (n + 1) /\ n + 1 \in 1 .. (n + 1) /\ (n + 1) - 1 = n
        /\ n + 1 \in 0 .. (n + 1)
    OBVIOUS
  <2>4. Flow!NumTokens(0) = p[0] /\ Flow!NumTokens(n) = p[n]
        /\ Flow!NumTokens(n + 1) = p[n + 1]
    BY <1>2, <2>1, <2>2, <2>3
  <2>5. p[0] = 1 /\ p[n + 1] = p[n] * 8 /\ p[n] \in Nat
    BY <2>2, <2>3 DEF Powers
  <2>6. QED BY <2>4, <2>5
<1> DEFINE P == {n \in Nat : Flow!NumTokens(n) # 0}
<1>4. P \in SUBSET Nat /\ 0 \in P
  BY <1>3
<1>5. ASSUME NEW n \in P PROVE n + 1 \in P
  <2>1. /\ n \in Nat /\ Flow!NumTokens(n) # 0 /\ Flow!NumTokens(n) \in Nat
        /\ Flow!NumTokens(n + 1) = Flow!NumTokens(n) * 8
    BY <1>3
  <2>2. QED BY <2>1
<1> HIDE DEF P
<1>6. P = Nat
  BY <1>4, <1>5, NatSetInduction
<1>7. QED BY <1>3, <1>6 DEF P

(* An instance has the library's operators under names of its own.             *)
LEMMA FlowLibrary ==
  /\ \A S : Flow!Cardinality(S) = Cardinality(S)
  /\ \A S : Flow!IsFiniteSet(S) <=> IsFiniteSet(S)
  /\ \A f : Flow!SumOver(f) = Total(f, DOMAIN f)
<1>1. ASSUME NEW S PROVE Flow!Cardinality(S) = Cardinality(S)
  BY DEF Flow!Cardinality, Cardinality
<1>2. ASSUME NEW S PROVE Flow!IsFiniteSet(S) <=> IsFiniteSet(S)
  BY DEF Flow!IsFiniteSet, IsFiniteSet
<1>3. ASSUME NEW f PROVE Flow!SumOver(f) = Total(f, DOMAIN f)
  BY DEF Flow!SumOver, Total, MapThenSumSet, MapThenFoldSet,
         Flow!MapThenSumSet, Flow!MapThenFoldSet
<1>4. QED BY <1>1, <1>2, <1>3

(* A byte has one of eight classes.                                            *)
LEMMA ByteClassType ==
  ASSUME NEW b \in 0 .. 255
  PROVE  Flow!ByteClass(b) \in 0 .. 7
<1>1. \/ Flow!ByteClass(b) = 0 \/ Flow!ByteClass(b) = 1 \/ Flow!ByteClass(b) = 2
      \/ Flow!ByteClass(b) = 3 \/ Flow!ByteClass(b) = 4 \/ Flow!ByteClass(b) = 5
      \/ Flow!ByteClass(b) = 6 \/ Flow!ByteClass(b) = 7
  BY DEF Flow!ByteClass
<1>2. QED BY <1>1

(* The token at a position: its digits from the first on, and its bound.       *)
LEMMA TokenDigits ==
  ASSUME NEW c, NEW i \in Nat, \A k \in 1 .. TokenWindow : c[i + k - 1] \in 0 .. 7
  PROVE  \E u : /\ u[0] = 0 /\ \A k \in 0 .. TokenWindow : u[k] \in Nat
                /\ \A k \in 1 .. TokenWindow : u[k] = u[k - 1] * 8 + c[i + k - 1]
                /\ Flow!Token(c, i) = u[TokenWindow]
<1> DEFINE d == [k \in 1 .. TokenWindow |-> c[i + k - 1]]
           Is(f) == f = [k \in 0 .. TokenWindow |->
                           IF k = 0 THEN 0 ELSE f[k - 1] * 8 + c[i + k - 1]]
           u == CHOOSE f : Is(f)
<1>1. TokenWindow \in Nat
  BY FeatureAssumption
<1>2. ASSUME NEW f PROVE Is(f) <=> IsHorner(f, TokenWindow, 0, 8, d)
  <2>1. \A k \in 0 .. TokenWindow :
          (IF k = 0 THEN 0 ELSE f[k - 1] * 8 + c[i + k - 1])
            = (IF k = 0 THEN 0 ELSE f[k - 1] * 8 + d[k])
    <3>1. \A k \in 0 .. TokenWindow : k # 0 => c[i + k - 1] = d[k]
      BY <1>1
    <3>2. QED BY <3>1
  <2> DEFINE F == [k \in 0 .. TokenWindow |-> IF k = 0 THEN 0 ELSE f[k - 1] * 8 + c[i + k - 1]]
             G == [k \in 0 .. TokenWindow |-> IF k = 0 THEN 0 ELSE f[k - 1] * 8 + d[k]]
  <2>2. F = G
    <3> HIDE DEF d
    <3>1. QED BY <2>1
  <2> HIDE DEF F, G, d
  <2>3. QED BY <2>2 DEF IsHorner, F, G
<1>3. \A k \in 1 .. TokenWindow : d[k] = c[i + k - 1] /\ d[k] \in Nat
  OBVIOUS
<1>4. Flow!Token(c, i) = u[TokenWindow]
  BY DEF Flow!Token, Flow!NumClasses
<1> HIDE DEF d, Is
<1>5. \E f : IsHorner(f, TokenWindow, 0, 8, d)
  BY <1>1, <1>3, HornerExists
<1>6. IsHorner(u, TokenWindow, 0, 8, d)
  <2>1. Is(u)
    BY <1>2, <1>5
  <2>2. QED BY <1>2, <2>1
<1> HIDE DEF u
<1>7. /\ u \in [0 .. TokenWindow -> Nat] /\ u[0] = 0
      /\ \A k \in 1 .. TokenWindow : u[k] = u[k - 1] * 8 + d[k]
  <2>1. 0 \in Nat /\ 8 \in Nat /\ \A k \in 1 .. TokenWindow : d[k] \in Nat
    BY <1>3
  <2>2. QED BY <1>1, <1>6, <2>1, HornerIs
<1>8. QED BY <1>3, <1>4, <1>7

(* A token is below the number of tokens.                                      *)
LEMMA TokenBelow ==
  ASSUME NEW c, NEW i \in Nat, \A k \in 1 .. TokenWindow : c[i + k - 1] \in 0 .. 7
  PROVE  Flow!Token(c, i) \in 0 .. (Flow!NumTokens(TokenWindow) - 1)
<1>1. PICK u : /\ u[0] = 0 /\ \A k \in 0 .. TokenWindow : u[k] \in Nat
               /\ \A k \in 1 .. TokenWindow : u[k] = u[k - 1] * 8 + c[i + k - 1]
               /\ Flow!Token(c, i) = u[TokenWindow]
  BY TokenDigits
<1>2. TokenWindow \in Nat
  BY FeatureAssumption
<1> DEFINE N == {k \in Nat : k <= TokenWindow => u[k] < Flow!NumTokens(k)}
<1>3. N \in SUBSET Nat /\ 0 \in N
  BY <1>1, TokenCounts
<1>4. ASSUME NEW k \in N PROVE k + 1 \in N
  <2> SUFFICES ASSUME k + 1 <= TokenWindow PROVE u[k + 1] < Flow!NumTokens(k + 1)
    OBVIOUS
  <2>1. k \in Nat /\ k + 1 \in 1 .. TokenWindow /\ (k + 1) - 1 = k /\ k \in 0 .. TokenWindow
    BY <1>2
  <2>2. u[k] < Flow!NumTokens(k) /\ u[k] \in Nat
    BY <1>1, <1>2, <2>1
  <2>3. u[k + 1] = u[k] * 8 + c[i + (k + 1) - 1] /\ c[i + (k + 1) - 1] \in 0 .. 7
    BY <1>1, <2>1
  <2>4. Flow!NumTokens(k + 1) = Flow!NumTokens(k) * 8 /\ Flow!NumTokens(k) \in Nat
    BY <2>1, TokenCounts
  <2>5. QED BY <2>2, <2>3, <2>4
<1> HIDE DEF N
<1>5. N = Nat
  BY <1>3, <1>4, NatSetInduction
<1>6. u[TokenWindow] < Flow!NumTokens(TokenWindow)
  BY <1>2, <1>5 DEF N
<1>7. u[TokenWindow] \in Nat /\ Flow!NumTokens(TokenWindow) \in Nat
  BY <1>1, <1>2, TokenCounts
<1>8. QED BY <1>1, <1>6, <1>7

(* A value falls into one of as many bins as there are edges, and one.         *)
LEMMA BinType ==
  ASSUME NEW n \in Nat, NEW edges, DOMAIN edges = 1 .. n, NEW v
  PROVE  Flow!Bin(v, edges) \in 0 .. n
<1> DEFINE S == {i \in DOMAIN edges : edges[i] < v}
<1>1. IsFiniteSet(1 .. n) /\ Cardinality(1 .. n) = n
  <2>1. 1 \in Int /\ n \in Int /\ (1 > n <=> n = 0) /\ n - 1 + 1 = n
    OBVIOUS
  <2>2. QED BY <2>1, FS_Interval
<1>2. S \subseteq 1 .. n
  OBVIOUS
<1> HIDE DEF S
<1>3. IsFiniteSet(S) /\ Cardinality(S) <= n
  <2> DEFINE T == 1 .. n
  <2>1. IsFiniteSet(T) /\ Cardinality(T) = n /\ S \in SUBSET T
    BY <1>1, <1>2
  <2> HIDE DEF T
  <2>2. QED BY <2>1, FS_Subset
<1>4. Cardinality(S) \in Nat
  BY <1>3, FS_CardinalityType
<1>5. Flow!Bin(v, edges) = Cardinality(S)
  BY FlowLibrary DEF Flow!Bin, S
<1>6. QED BY <1>3, <1>4, <1>5

(* What an extractor returns has at least one symbol.                          *)
LEMMA NonEmptyType ==
  ASSUME NEW S, 0 \in S, NEW s \in Seq(S)
  PROVE  Flow!NonEmpty(s) \in Seq(S) /\ Flow!NonEmpty(s) # <<>>
<1>1. <<0>> \in Seq(S) /\ <<0>> # <<>>
  OBVIOUS
<1>2. QED BY <1>1 DEF Flow!NonEmpty

(* A payload has as many classes as bytes.                                     *)
LEMMA ClassesType ==
  ASSUME NEW b \in Seq(Bytes)
  PROVE  /\ Flow!Classes(b) \in Seq(0 .. 7) /\ Len(Flow!Classes(b)) = Len(b)
         /\ \A i \in 1 .. Len(b) : Flow!Classes(b)[i] = Flow!ByteClass(b[i])
<1> DEFINE n == Len(b)
           c == Flow!Classes(b)
<1>1. n \in Nat /\ DOMAIN b = 1 .. n /\ \A i \in 1 .. n : b[i] \in 0 .. 255
  <2>1. n \in Nat /\ b \in [1 .. n -> Bytes] /\ DOMAIN b = 1 .. n
    BY LenProperties
  <2>2. QED BY <2>1, FeatureAssumption
<1>2. c = [i \in 1 .. n |-> Flow!ByteClass(b[i])]
  BY <1>1 DEF Flow!Classes
<1> HIDE DEF n, c
<1>3. c \in [1 .. n -> 0 .. 7] /\ \A i \in 1 .. n : c[i] = Flow!ByteClass(b[i])
  BY <1>1, <1>2, ByteClassType
<1>4. c \in Seq(0 .. 7) /\ Len(c) = n
  <2> DEFINE S == 0 .. 7
  <2>1. c \in [1 .. n -> S]
    BY <1>3
  <2> HIDE DEF S
  <2>2. c \in Seq(S) /\ Len(c) = n
    BY <1>1, <2>1, FunctionIsSeq
  <2>3. QED BY <2>2 DEF S
<1>5. QED BY <1>3, <1>4 DEF n, c

(* Filling up a payload leaves its classes where they are.                     *)
LEMMA PaddedType ==
  ASSUME NEW c \in Seq(0 .. 7)
  PROVE  /\ Flow!Padded(c) \in Seq(0 .. 7)
         /\ Len(Flow!Padded(c)) = IF Len(c) < TokenWindow THEN TokenWindow ELSE Len(c)
         /\ \A i \in 1 .. Len(c) : Flow!Padded(c)[i] = c[i]
<1> DEFINE m == IF Len(c) < TokenWindow THEN TokenWindow ELSE Len(c)
           p == Flow!Padded(c)
<1>1. m \in Nat /\ Len(c) \in Nat /\ DOMAIN c = 1 .. Len(c) /\ Len(c) <= m
      /\ \A i \in 1 .. Len(c) : c[i] \in 0 .. 7
  BY FeatureAssumption
<1>2. p = [i \in 1 .. m |-> IF i \in DOMAIN c THEN c[i] ELSE 0]
  BY DEF Flow!Padded
<1> HIDE DEF m, p
<1>3. p \in [1 .. m -> 0 .. 7] /\ \A i \in 1 .. Len(c) : p[i] = c[i]
  BY <1>1, <1>2
<1>4. p \in Seq(0 .. 7) /\ Len(p) = m
  <2> DEFINE S == 0 .. 7
  <2>1. p \in [1 .. m -> S]
    BY <1>3
  <2> HIDE DEF S
  <2>2. p \in Seq(S) /\ Len(p) = m
    BY <1>1, <2>1, FunctionIsSeq
  <2>3. QED BY <2>2 DEF S
<1>5. QED BY <1>3, <1>4 DEF m, p

(* The tokens of a flow, before the one of an empty list is put in.            *)
LEMMA TokensAre ==
  ASSUME NEW b \in Seq(Bytes)
  PROVE  LET p == Flow!Padded(Flow!Classes(b))
             n == Len(p) - TokenWindow + 1
             w == Flow!WindowTokens(b)
         IN  /\ n \in Nat \ {0} /\ p \in Seq(0 .. 7)
             /\ w \in Seq(0 .. (Flow!NumTokens(TokenWindow) - 1)) /\ w # <<>>
             /\ DOMAIN w = 1 .. n
             /\ \A i \in 1 .. n : w[i] = Flow!Token(p, i)
<1> DEFINE p == Flow!Padded(Flow!Classes(b))
           n == Len(p) - TokenWindow + 1
           t == [i \in 1 .. n |-> Flow!Token(p, i)]
           S == 0 .. (Flow!NumTokens(TokenWindow) - 1)
<1>1. TokenWindow \in Nat \ {0}
  BY FeatureAssumption
<1>2. p \in Seq(0 .. 7) /\ Len(p) \in Nat /\ Len(p) >= TokenWindow
  <2>1. Flow!Classes(b) \in Seq(0 .. 7)
    BY ClassesType
  <2>2. /\ p \in Seq(0 .. 7)
        /\ Len(p) = IF Len(Flow!Classes(b)) < TokenWindow THEN TokenWindow ELSE Len(Flow!Classes(b))
    BY <2>1, PaddedType
  <2>3. Len(Flow!Classes(b)) \in Nat
    BY <2>1
  <2>4. QED BY <1>1, <2>2, <2>3
<1> HIDE DEF p
<1>3. n \in Nat \ {0}
  BY <1>1, <1>2
<1>4. ASSUME NEW i \in 1 .. n PROVE Flow!Token(p, i) \in S
  <2>1. i \in Nat
    BY <1>3
  <2>2. \A k \in 1 .. TokenWindow : p[i + k - 1] \in 0 .. 7
    <3> SUFFICES ASSUME NEW k \in 1 .. TokenWindow PROVE p[i + k - 1] \in 0 .. 7
      OBVIOUS
    <3>1. i + k - 1 \in 1 .. Len(p)
      BY <1>1, <1>2, <1>3, <2>1
    <3>2. p \in [1 .. Len(p) -> 0 .. 7]
      BY <1>2, LenProperties
    <3>3. QED BY <3>1, <3>2
  <2>3. QED BY <2>1, <2>2, TokenBelow
<1>5. 0 \in S
  <2>1. Flow!NumTokens(TokenWindow) \in Nat \ {0}
    BY <1>1, TokenCounts
  <2>2. QED BY <2>1
<1> HIDE DEF n, S
<1>6. t \in [1 .. n -> S] /\ \A i \in 1 .. n : t[i] = Flow!Token(p, i)
  BY <1>4
<1> HIDE DEF t
<1>7. t \in Seq(S) /\ Len(t) = n /\ DOMAIN t = 1 .. n
  BY <1>3, <1>6, FunctionIsSeq
<1>8. t # <<>>
  BY <1>3, <1>7
<1>9. Flow!WindowTokens(b) = t
  <2>1. Flow!WindowTokens(b) = Flow!NonEmpty(t)
    BY DEF Flow!WindowTokens, t, p, n
  <2>2. QED BY <1>8, <2>1 DEF Flow!NonEmpty
<1>10. QED BY <1>2, <1>3, <1>6, <1>7, <1>8, <1>9 DEF p, n, S

(* The digits of a packet's symbol.                                            *)
Direction(p) == IF p.inbound THEN 0 ELSE 1

(* A packet's symbol as a number of four digits, each below its radix.         *)
LEMMA SymbolDigits ==
  ASSUME NEW p \in Flow!Packet
  PROVE  /\ Direction(p) \in 0 .. 1
         /\ Flow!Bin(p.length, Flow!LengthBins) \in 0 .. 7
         /\ Flow!Bin(p.gap, Flow!GapBins) \in 0 .. 4
         /\ Flow!FlagBin(p.flags) \in 0 .. 7
         /\ Flow!Symbol(p) = ((Direction(p) * 8 + Flow!Bin(p.length, Flow!LengthBins)) * 5
                                + Flow!Bin(p.gap, Flow!GapBins)) * 8 + Flow!FlagBin(p.flags)
<1>1. Flow!Bin(p.length, Flow!LengthBins) \in 0 .. 7
  <2>1. DOMAIN Flow!LengthBins = 1 .. 7
    BY DEF Flow!LengthBins
  <2>2. QED BY <2>1, BinType
<1>2. Flow!Bin(p.gap, Flow!GapBins) \in 0 .. 4
  <2>1. DOMAIN Flow!GapBins = 1 .. 4
    BY DEF Flow!GapBins
  <2>2. QED BY <2>1, BinType
<1>3. Flow!FlagBin(p.flags) \in 0 .. 7
  <2>1. DOMAIN Flow!FlagIndex = 1 .. 7
    BY DEF Flow!FlagIndex
  <2> DEFINE i == CHOOSE i \in DOMAIN Flow!FlagIndex : Flow!FlagIndex[i] = p.flags
  <2>2. CASE \E k \in DOMAIN Flow!FlagIndex : Flow!FlagIndex[k] = p.flags
    <3>1. i \in 1 .. 7
      BY <2>1, <2>2
    <3>2. Flow!FlagBin(p.flags) = i - 1
      BY <2>2 DEF Flow!FlagBin
    <3> HIDE DEF i
    <3>3. QED BY <3>1, <3>2
  <2>3. CASE ~ \E k \in DOMAIN Flow!FlagIndex : Flow!FlagIndex[k] = p.flags
    <3>1. Flow!FlagBin(p.flags) = 7
      BY <2>3 DEF Flow!FlagBin
    <3>2. QED BY <3>1
  <2>4. QED BY <2>2, <2>3
<1>4. Direction(p) \in 0 .. 1
  BY DEF Direction
<1>5. Flow!Symbol(p) = ((Direction(p) * 8 + Flow!Bin(p.length, Flow!LengthBins)) * 5
                                + Flow!Bin(p.gap, Flow!GapBins)) * 8 + Flow!FlagBin(p.flags)
  BY DEF Flow!Symbol, Direction
<1>6. QED BY <1>1, <1>2, <1>3, <1>4, <1>5

(* Whatever the flow, an extractor returns at least one symbol, and only       *)
(* symbols of its alphabet.                                                    *)
LEMMA ExtractType ==
  ASSUME NEW e \in Flow!Extractors, NEW b \in Seq(Bytes), NEW p \in Seq(Flow!Packet)
  PROVE  /\ Flow!Extract(e, b, p) \in Seq(0 .. (Flow!Alphabet(e) - 1))
         /\ Flow!Extract(e, b, p) # <<>>
<1>1. CASE e = "raw_byte"
  <2>1. Flow!Extract(e, b, p) = Flow!NonEmpty(b) /\ Flow!Alphabet(e) = 256
    BY <1>1 DEF Flow!Extract, Flow!RawBytes, Flow!Alphabet
  <2> DEFINE S == 0 .. (256 - 1)
  <2>2. b \in Seq(S) /\ 0 \in S
    <3>1. Bytes \subseteq S
      BY FeatureAssumption
    <3> HIDE DEF S
    <3>2. b \in Seq(S)
      BY <3>1
    <3>3. QED BY <3>2 DEF S
  <2> HIDE DEF S
  <2>3. Flow!NonEmpty(b) \in Seq(S) /\ Flow!NonEmpty(b) # <<>>
    BY <2>2, NonEmptyType
  <2>4. QED BY <2>1, <2>3 DEF S
<1>2. CASE e = "byte_class"
  <2>1. Flow!Extract(e, b, p) = Flow!NonEmpty(Flow!Classes(b)) /\ Flow!Alphabet(e) = 8
    BY <1>2 DEF Flow!Extract, Flow!ByteClasses, Flow!Alphabet, Flow!NumClasses
  <2> DEFINE S == 0 .. 7
  <2>2. Flow!Classes(b) \in Seq(S) /\ 0 \in S
    BY ClassesType
  <2>3. 8 - 1 = 7
    OBVIOUS
  <2> HIDE DEF S
  <2>4. Flow!NonEmpty(Flow!Classes(b)) \in Seq(S) /\ Flow!NonEmpty(Flow!Classes(b)) # <<>>
    BY <2>2, NonEmptyType
  <2>5. S = 0 .. (Flow!Alphabet(e) - 1)
    BY <2>1, <2>3 DEF S
  <2>6. QED BY <2>1, <2>4, <2>5
<1>3. CASE e = "window_token"
  <2>1. Flow!Extract(e, b, p) = Flow!WindowTokens(b)
        /\ Flow!Alphabet(e) = Flow!NumTokens(TokenWindow)
    BY <1>3 DEF Flow!Extract, Flow!Alphabet
  <2>2. QED BY <2>1, TokensAre
<1>4. CASE e = "flow_feature"
  <2> DEFINE s == [i \in DOMAIN p |-> Flow!Symbol(p[i])]
             S == 0 .. 639
             n == Len(p)
  <2>1. Flow!Extract(e, b, p) = Flow!NonEmpty(s) /\ Flow!Alphabet(e) - 1 = 639
    BY <1>4 DEF Flow!Extract, Flow!FlowFeatures, Flow!Alphabet
  <2>2. n \in Nat /\ DOMAIN p = 1 .. n /\ \A i \in 1 .. n : p[i] \in Flow!Packet
    BY LenProperties
  <2>3. \A i \in 1 .. n : Flow!Symbol(p[i]) \in S
    <3> SUFFICES ASSUME NEW i \in 1 .. n PROVE Flow!Symbol(p[i]) \in S
      OBVIOUS
    <3> DEFINE d == Direction(p[i])
               l == Flow!Bin(p[i].length, Flow!LengthBins)
               g == Flow!Bin(p[i].gap, Flow!GapBins)
               f == Flow!FlagBin(p[i].flags)
    <3>1. /\ d \in 0 .. 1 /\ l \in 0 .. 7 /\ g \in 0 .. 4 /\ f \in 0 .. 7
          /\ Flow!Symbol(p[i]) = ((d * 8 + l) * 5 + g) * 8 + f
      BY <2>2, SymbolDigits
    <3> HIDE DEF d, l, g, f
    <3>2. QED BY <3>1
  <2>4. 0 \in S
    OBVIOUS
  <2> HIDE DEF S, n
  <2>5. s \in [1 .. n -> S]
    BY <2>2, <2>3
  <2> HIDE DEF s
  <2>6. s \in Seq(S)
    BY <2>2, <2>5, FunctionIsSeq
  <2>7. Flow!NonEmpty(s) \in Seq(S) /\ Flow!NonEmpty(s) # <<>>
    BY <2>4, <2>6, NonEmptyType
  <2>8. S = 0 .. (Flow!Alphabet(e) - 1)
    BY <2>1 DEF S
  <2>9. QED BY <2>1, <2>7, <2>8
<1>5. QED BY <1>1, <1>2, <1>3, <1>4 DEF Flow!Extractors

(* A flow that can be asked about has symbols and a length bucket.             *)
LEMMA FlowFacts ==
  ASSUME NEW e \in Flow!Extractors, NEW b, NEW p, <<b, p>> \in Traffic
  PROVE  LET s == Flow!Extract(e, b, p)
         IN  /\ s \in Seq(0 .. (Flow!Alphabet(e) - 1))
             /\ s # <<>>
             /\ \A i \in DOMAIN s : s[i] \in 0 .. (Flow!Alphabet(e) - 1)
             /\ Flow!LengthBucket(Flow!FlowLength(b, p)) \in 0 .. 5
<1>1. b \in Seq(Bytes) /\ p \in Seq(Flow!Packet)
  BY PartAssumptions DEF Flow!FlowScoreAssumption
<1> DEFINE S == 0 .. (Flow!Alphabet(e) - 1)
           s == Flow!Extract(e, b, p)
<1>2. s \in Seq(S) /\ s # <<>>
  BY <1>1, ExtractType
<1>3. \A i \in DOMAIN s : s[i] \in S
  <2> HIDE DEF S, s
  <2>1. QED BY <1>2, LenProperties
<1>4. Flow!LengthBucket(Flow!FlowLength(b, p)) \in 0 .. 5
  <2>1. DOMAIN Flow!LengthEdges = 1 .. 5
    BY DEF Flow!LengthEdges
  <2>2. QED BY <2>1, BinType DEF Flow!LengthBucket
<1>5. QED BY <1>2, <1>3, <1>4

(* The windows of a sequence longer than one.                                  *)
LEMMA WindowsAre ==
  ASSUME NEW S, NEW s \in Seq(S), Len(s) > Window
  PROVE  /\ Flow!NWindows(s) \in Nat \ {0}
         /\ Len(Flow!SlidingWindows(s)) = Flow!NWindows(s)
         /\ Flow!SlidingWindows(s) =
              [i \in 1 .. Flow!NWindows(s) |-> SubSeq(s, i, i + Window - 1)]
<1>1. Window \in Nat \ {0} /\ Len(s) \in Nat
  BY PartAssumptions DEF Flow!FlowScoreAssumption
<1> DEFINE n == Flow!NWindows(s)
           w == Flow!SlidingWindows(s)
<1>2. n \in Nat \ {0}
  BY <1>1 DEF Flow!NWindows
<1>3. w = [i \in 1 .. n |-> SubSeq(s, i, i + Window - 1)]
  BY <1>1 DEF Flow!SlidingWindows, Flow!NWindows
<1> HIDE DEF n, w
<1>4. Len(w) = n
  <2> DEFINE T == {SubSeq(s, i, i + Window - 1) : i \in 1 .. n}
  <2>1. w \in [1 .. n -> T]
    BY <1>3
  <2> HIDE DEF T
  <2>2. QED BY <1>2, <2>1, FunctionIsSeq
<1>5. QED BY <1>2, <1>3, <1>4 DEF n, w

(* Every symbol of a window has its column in every row of the matrix.         *)
LEMMA EmittedType ==
  ASSUME extractor \in Flow!Extractors,
         NEW s \in Seq(0 .. (Flow!Alphabet(extractor) - 1)), Len(s) > Window,
         NEW j \in 1 .. Flow!NWindows(s), NEW t \in 0 .. (Window - 1), NEW q \in States
  PROVE  Flow!Emitted(s, j, t, q) \in Nat
<1> DEFINE A == Flow!Alphabet(extractor)
           row == Emit[extractor][q]
<1>1. Window \in Nat \ {0} /\ row \in Seq(Nat) /\ Len(row) = A
  BY PartAssumptions DEF Flow!FlowScoreAssumption
<1>2. Len(s) \in Nat /\ Flow!NWindows(s) = Len(s) - Window + 1
  BY DEF Flow!NWindows
<1>3. j + t \in 1 .. Len(s)
  BY <1>1, <1>2
<1>4. s[j + t] \in 0 .. (A - 1)
  <2> DEFINE S == 0 .. (A - 1)
  <2> HIDE DEF S
  <2>1. s \in Seq(S)
    BY DEF S
  <2>2. s[j + t] \in S
    BY <1>3, <2>1, LenProperties
  <2>3. QED BY <2>2 DEF S
<1>5. Flow!Emitted(s, j, t, q) = row[s[j + t] + 1]
  BY DEF Flow!Emitted
<1> HIDE DEF row, A
<1>6. row \in [1 .. A -> Nat] /\ A \in Nat
  BY <1>1, LenProperties
<1>7. s[j + t] + 1 \in 1 .. A
  BY <1>4, <1>6
<1>8. QED BY <1>5, <1>6, <1>7

(* A sum of natural weights over the states.                                   *)
LEMMA ReachedType ==
  ASSUME NEW j, alpha[j] \in [States -> Nat], NEW q \in States
  PROVE  Flow!Reached(j, q) \in Nat
<1> DEFINE f == [p \in States |-> alpha[j][p] * Trans[p][q]]
<1>1. IsFiniteSet(States) /\ Trans \in [States -> [States -> Nat]]
  BY PartAssumptions, FlowLibrary DEF Flow!FlowScoreAssumption
<1>2. \A p \in States : f[p] \in Nat
  <2> SUFFICES ASSUME NEW p \in States PROVE alpha[j][p] * Trans[p][q] \in Nat
    OBVIOUS
  <2>1. alpha[j][p] \in Nat /\ Trans[p][q] \in Nat
    BY <1>1
  <2>2. QED BY <2>1
<1>3. Flow!Reached(j, q) = Total(f, States)
  <2>1. Flow!Reached(j, q) = Flow!SumOver(f) /\ DOMAIN f = States
    BY DEF Flow!Reached
  <2> HIDE DEF f
  <2>2. QED BY <2>1, FlowLibrary
<1> HIDE DEF f
<1>4. QED BY <1>1, <1>2, <1>3, SumType

(* A flow is only scored in this way if it is longer than a window.            *)
FlowInv == Flow!TypeOK /\ (step # -1 => Len(Flow!Symbols) > Window)

(* At the start a flow is empty and nothing is scored.                         *)
LEMMA FlowInit == Flow!Init => FlowInv
<1> SUFFICES ASSUME Flow!Init PROVE FlowInv
  OBVIOUS
<1>1. extractor \in Flow!Extractors /\ <<payload, packets>> \in Traffic /\ step = -1
  BY PartAssumptions DEF Flow!Init, Flow!FlowScoreAssumption
<1>2. step \in -1 .. (Window - 1)
  BY <1>1, PartAssumptions DEF Flow!FlowScoreAssumption
<1>3. QED BY <1>1, <1>2, FlowFacts DEF FlowInv, Flow!TypeOK, Flow!Symbols

(* A step that leaves the flow alone has to keep the types of the weights.     *)
LEMMA SameFlowTypes ==
  ASSUME FlowInv, UNCHANGED <<extractor, payload, packets>>, step' \in -1 .. (Window - 1),
         step' # -1 => Len(Flow!Symbols) > Window,
         step' # -1 => alpha' \in [1 .. Len(Flow!SlidingWindows(Flow!Symbols)) -> [States -> Nat]]
  PROVE  FlowInv'
<1>1. Flow!Symbols' = Flow!Symbols
  BY DEF Flow!Symbols
<1>2. Flow!SlidingWindows(Flow!Symbols') = Flow!SlidingWindows(Flow!Symbols)
  BY <1>1
<1>3. QED BY <1>1, <1>2 DEF FlowInv, Flow!TypeOK

(* Growing and scoring a flow keep the invariant.                              *)
LEMMA FlowStep == FlowInv /\ [Flow!Next]_flowVars => FlowInv'
<1> SUFFICES ASSUME FlowInv, [Flow!Next]_flowVars PROVE FlowInv'
  OBVIOUS
<1> DEFINE s == Flow!Symbols
           A == Flow!Alphabet(extractor)
           n == Flow!NWindows(s)
<1>1. /\ extractor \in Flow!Extractors /\ <<payload, packets>> \in Traffic
      /\ step \in -1 .. (Window - 1) /\ (step # -1 => Len(s) > Window)
      /\ step # -1 => alpha \in [1 .. Len(Flow!SlidingWindows(s)) -> [States -> Nat]]
  BY DEF FlowInv, Flow!TypeOK
<1>2. Window \in Nat \ {0} /\ Start \in [States -> Nat]
  BY PartAssumptions DEF Flow!FlowScoreAssumption
<1>3. s \in Seq(0 .. (A - 1))
  BY <1>1, FlowFacts DEF Flow!Symbols
<1>4. CASE Flow!AppendByte \/ Flow!AppendPacket
  <2>1. /\ extractor' \in Flow!Extractors /\ <<payload', packets'>> \in Traffic
        /\ step' = -1
    BY <1>1, <1>4 DEF Flow!AppendByte, Flow!AppendPacket
  <2>2. /\ Flow!Symbols' # <<>>
        /\ \A i \in DOMAIN Flow!Symbols' :
             Flow!Symbols'[i] \in 0 .. (Flow!Alphabet(extractor') - 1)
        /\ Flow!LengthBucket(Flow!FlowLength(payload', packets')) \in 0 .. 5
    <3>1. Flow!Symbols' = Flow!Extract(extractor', payload', packets')
      BY DEF Flow!Symbols
    <3>2. QED BY <2>1, <3>1, FlowFacts
  <2>3. step' \in -1 .. (Window - 1)
    BY <1>2, <2>1
  <2>4. QED BY <2>1, <2>2, <2>3 DEF FlowInv, Flow!TypeOK
<1>5. CASE Flow!Score
  <2>1. step = -1 /\ step' = 0 /\ Len(s) > Window /\ UNCHANGED <<extractor, payload, packets>>
    BY <1>5 DEF Flow!Score
  <2>2. alpha' = [j \in 1 .. n |-> [q \in States |-> Start[q] * Flow!Emitted(s, j, 0, q)]]
    BY <1>5 DEF Flow!Score
  <2>3. \A j \in 1 .. n, q \in States : Start[q] * Flow!Emitted(s, j, 0, q) \in Nat
    <3> SUFFICES ASSUME NEW j \in 1 .. n, NEW q \in States
                 PROVE  Start[q] * Flow!Emitted(s, j, 0, q) \in Nat
      OBVIOUS
    <3>1. 0 \in 0 .. (Window - 1)
      BY <1>2
    <3> HIDE DEF s
    <3>2. Flow!Emitted(s, j, 0, q) \in Nat
      BY <1>1, <1>3, <2>1, <3>1, EmittedType
    <3>3. Start[q] \in Nat
      BY <1>2
    <3>4. QED BY <3>2, <3>3
  <2>4. alpha' \in [1 .. n -> [States -> Nat]]
    <3> HIDE DEF n, s
    <3>1. QED BY <2>2, <2>3
  <2>5. Len(Flow!SlidingWindows(s)) = n
    <3> HIDE DEF s
    <3>1. QED BY <1>3, <2>1, WindowsAre
  <2>6. Flow!Symbols' = s
    BY <2>1 DEF Flow!Symbols
  <2>7. step' \in -1 .. (Window - 1)
    BY <1>2, <2>1
  <2> HIDE DEF s, n
  <2>8. alpha' \in [1 .. Len(Flow!SlidingWindows(s)) -> [States -> Nat]]
    BY <2>4, <2>5
  <2>9. QED BY <1>1, <2>1, <2>6, <2>7, <2>8, SameFlowTypes DEF s
<1>6. CASE Flow!Step
  <2>1. /\ step \in 0 .. (Window - 2) /\ step' = step + 1
        /\ UNCHANGED <<extractor, payload, packets>>
    BY <1>6 DEF Flow!Step
  <2>2. alpha' = [j \in DOMAIN alpha |->
                    [q \in States |-> Flow!Reached(j, q) * Flow!Emitted(s, j, step', q)]]
    BY <1>6 DEF Flow!Step
  <2>3. step # -1 /\ Len(s) > Window /\ step' \in 0 .. (Window - 1)
    BY <1>1, <1>2, <2>1
  <2>4. Len(Flow!SlidingWindows(s)) = n
    <3> HIDE DEF s
    <3>1. QED BY <1>3, <2>3, WindowsAre
  <2>5. alpha \in [1 .. n -> [States -> Nat]]
    BY <1>1, <2>3, <2>4
  <2>6. \A j \in 1 .. n, q \in States : Flow!Reached(j, q) * Flow!Emitted(s, j, step', q) \in Nat
    <3> SUFFICES ASSUME NEW j \in 1 .. n, NEW q \in States
                 PROVE  Flow!Reached(j, q) * Flow!Emitted(s, j, step', q) \in Nat
      OBVIOUS
    <3> HIDE DEF s
    <3>1. Flow!Emitted(s, j, step', q) \in Nat
      BY <1>1, <1>3, <2>3, EmittedType
    <3> HIDE DEF n
    <3>2. alpha[j] \in [States -> Nat]
      BY <2>5
    <3>3. Flow!Reached(j, q) \in Nat
      BY <3>2, ReachedType
    <3>4. QED BY <3>1, <3>3
  <2> HIDE DEF s, n
  <2>7. alpha' \in [1 .. n -> [States -> Nat]]
    BY <2>2, <2>5, <2>6
  <2>8. alpha' \in [1 .. Len(Flow!SlidingWindows(s)) -> [States -> Nat]]
    BY <2>4, <2>7
  <2>9. Flow!Symbols' = s
    BY <2>1 DEF Flow!Symbols, s
  <2>10. step' \in -1 .. (Window - 1)
    BY <1>2, <2>3
  <2>11. QED BY <1>1, <2>1, <2>3, <2>8, <2>9, <2>10, SameFlowTypes DEF s
<1>7. CASE Flow!Scored \/ UNCHANGED flowVars
  <2>1. /\ UNCHANGED <<extractor, payload, packets>>
        /\ step' = -1 \/ UNCHANGED <<step, alpha>>
    BY <1>7 DEF Flow!Scored, flowVars
  <2>2. Flow!Symbols' = s
    BY <2>1 DEF Flow!Symbols
  <2>3. step' \in -1 .. (Window - 1)
    BY <1>1, <1>2, <2>1
  <2>4. /\ step' # -1 => Len(s) > Window
        /\ step' # -1 => alpha' \in [1 .. Len(Flow!SlidingWindows(s)) -> [States -> Nat]]
    BY <1>1, <2>1
  <2>5. QED BY <1>1, <2>1, <2>2, <2>3, <2>4, SameFlowTypes
<1>8. QED BY <1>4, <1>5, <1>6, <1>7 DEF Flow!Next

(* The digits of a token are the classes it is made of.                        *)
LEMMA DigitOfToken ==
  ASSUME NEW c, NEW i \in Nat, \A k \in 1 .. TokenWindow : c[i + k - 1] \in 0 .. 7,
         NEW k \in 1 .. TokenWindow
  PROVE  Flow!Digit(Flow!Token(c, i), k) = c[i + k - 1]
<1>1. PICK u : /\ u[0] = 0 /\ \A h \in 0 .. TokenWindow : u[h] \in Nat
               /\ \A h \in 1 .. TokenWindow : u[h] = u[h - 1] * 8 + c[i + h - 1]
               /\ Flow!Token(c, i) = u[TokenWindow]
  BY TokenDigits
<1>2. TokenWindow \in Nat /\ k \in Nat /\ k \in 0 .. TokenWindow /\ k - 1 \in 0 .. TokenWindow
  BY FeatureAssumption
<1> DEFINE T(m) == Flow!NumTokens(m)
           N == {m \in Nat : k + m <= TokenWindow =>
                               \E r \in Nat : r < T(m) /\ u[k + m] = u[k] * T(m) + r}
<1>3. N \in SUBSET Nat /\ 0 \in N
  <2>1. T(0) = 1 /\ k + 0 = k /\ u[k] \in Nat
    BY <1>1, <1>2, TokenCounts
  <2>2. u[k + 0] = u[k] * T(0) + 0 /\ 0 < T(0)
    BY <2>1
  <2>3. QED BY <2>2
<1>4. ASSUME NEW m \in N PROVE m + 1 \in N
  <2>1. m \in Nat /\ T(m) \in Nat /\ T(m + 1) = T(m) * 8
    BY TokenCounts
  <2> SUFFICES ASSUME k + (m + 1) <= TokenWindow
               PROVE  \E r \in Nat : r < T(m + 1) /\ u[k + (m + 1)] = u[k] * T(m + 1) + r
    BY <2>1
  <2>2. PICK r \in Nat : r < T(m) /\ u[k + m] = u[k] * T(m) + r
    BY <1>2, <2>1
  <2> DEFINE d == c[i + (k + m + 1) - 1]
  <2>3. u[k + m + 1] = u[k + m] * 8 + d /\ d \in 0 .. 7 /\ k + (m + 1) = k + m + 1
    <3>1. k + m + 1 \in 1 .. TokenWindow /\ (k + m + 1) - 1 = k + m
      BY <1>2, <2>1
    <3>2. QED BY <1>1, <3>1
  <2> DEFINE s == r * 8 + d
             x == u[k] * T(m)
  <2>4. u[k] \in Nat /\ x \in Nat /\ u[k] * T(m + 1) = x * 8
    BY <1>1, <1>2, <2>1
  <2> HIDE DEF d, T, x
  <2>5. s \in Nat /\ s < T(m + 1)
    BY <2>1, <2>2, <2>3
  <2>6. u[k + (m + 1)] = x * 8 + s
    <3>1. u[k + m] = x + r
      BY <2>2 DEF x
    <3>2. QED BY <2>2, <2>3, <2>4, <3>1
  <2> HIDE DEF s
  <2>7. QED BY <2>4, <2>5, <2>6
<1> HIDE DEF N
<1>5. N = Nat
  BY <1>3, <1>4, NatSetInduction
<1> DEFINE m == TokenWindow - k
<1>6. m \in Nat /\ k + m = TokenWindow
  BY <1>2
<1> HIDE DEF m
<1>7. PICK r \in Nat : r < T(m) /\ u[TokenWindow] = u[k] * T(m) + r
  BY <1>5, <1>6 DEF N
<1>8. T(m) \in Nat \ {0} /\ u[k] \in Nat
  BY <1>1, <1>2, <1>6, TokenCounts
<1> HIDE DEF T
<1>9. u[TokenWindow] \div T(m) = u[k]
  BY <1>7, <1>8, DivOfSum
<1>10. u[k] % 8 = c[i + k - 1]
  <2> DEFINE d == c[i + k - 1]
  <2>1. u[k] = u[k - 1] * 8 + d /\ u[k - 1] \in Nat /\ d \in 0 .. 7
    BY <1>1, <1>2
  <2> HIDE DEF d
  <2>2. u[k] % 8 = d
    BY <2>1
  <2>3. QED BY <2>2 DEF d
<1>11. Flow!Digit(Flow!Token(c, i), k) = (u[TokenWindow] \div T(m)) % 8
  BY <1>1 DEF Flow!Digit, Flow!NumClasses, T, m
<1>12. QED BY <1>9, <1>10, <1>11

(* Symbols of packets are numbers whose digits are the four parts.             *)
LEMMA SymbolParts ==
  ASSUME NEW p \in Flow!Packet, NEW q \in Flow!Packet, Flow!Symbol(p) = Flow!Symbol(q)
  PROVE  /\ p.inbound = q.inbound
         /\ Flow!Bin(p.length, Flow!LengthBins) = Flow!Bin(q.length, Flow!LengthBins)
         /\ Flow!Bin(p.gap, Flow!GapBins) = Flow!Bin(q.gap, Flow!GapBins)
         /\ Flow!FlagBin(p.flags) = Flow!FlagBin(q.flags)
<1>1. ASSUME NEW a \in 0 .. 1, NEW b \in 0 .. 7, NEW c \in 0 .. 4, NEW f \in 0 .. 7,
             NEW a2 \in 0 .. 1, NEW b2 \in 0 .. 7, NEW c2 \in 0 .. 4, NEW f2 \in 0 .. 7,
             ((a * 8 + b) * 5 + c) * 8 + f = ((a2 * 8 + b2) * 5 + c2) * 8 + f2
      PROVE  a = a2 /\ b = b2 /\ c = c2 /\ f = f2
  <2>1. (a * 8 + b) * 5 + c = (a2 * 8 + b2) * 5 + c2 /\ f = f2
    BY <1>1
  <2>2. a * 8 + b = a2 * 8 + b2 /\ c = c2
    BY <2>1
  <2>3. QED BY <2>1, <2>2
<1>2. /\ Direction(p) = Direction(q)
      /\ Flow!Bin(p.length, Flow!LengthBins) = Flow!Bin(q.length, Flow!LengthBins)
      /\ Flow!Bin(p.gap, Flow!GapBins) = Flow!Bin(q.gap, Flow!GapBins)
      /\ Flow!FlagBin(p.flags) = Flow!FlagBin(q.flags)
  <2> DEFINE a == Direction(p)
             b == Flow!Bin(p.length, Flow!LengthBins)
             c == Flow!Bin(p.gap, Flow!GapBins)
             f == Flow!FlagBin(p.flags)
             a2 == Direction(q)
             b2 == Flow!Bin(q.length, Flow!LengthBins)
             c2 == Flow!Bin(q.gap, Flow!GapBins)
             f2 == Flow!FlagBin(q.flags)
  <2>1. /\ a \in 0 .. 1 /\ b \in 0 .. 7 /\ c \in 0 .. 4 /\ f \in 0 .. 7
        /\ Flow!Symbol(p) = ((a * 8 + b) * 5 + c) * 8 + f
    BY SymbolDigits
  <2>2. /\ a2 \in 0 .. 1 /\ b2 \in 0 .. 7 /\ c2 \in 0 .. 4 /\ f2 \in 0 .. 7
        /\ Flow!Symbol(q) = ((a2 * 8 + b2) * 5 + c2) * 8 + f2
    BY SymbolDigits
  <2> HIDE DEF a, b, c, f, a2, b2, c2, f2
  <2>3. ((a * 8 + b) * 5 + c) * 8 + f = ((a2 * 8 + b2) * 5 + c2) * 8 + f2
    BY <2>1, <2>2
  <2>4. a = a2 /\ b = b2 /\ c = c2 /\ f = f2
    BY <1>1, <2>1, <2>2, <2>3
  <2>5. QED BY <2>4 DEF a, b, c, f, a2, b2, c2, f2
<1>3. (p.inbound = TRUE \/ p.inbound = FALSE) /\ (q.inbound = TRUE \/ q.inbound = FALSE)
  <2>1. p.inbound \in BOOLEAN /\ q.inbound \in BOOLEAN
    BY DEF Flow!Packet
  <2>2. QED BY <2>1
<1>4. p.inbound = q.inbound
  <2>1. CASE p.inbound = TRUE /\ q.inbound = FALSE
    BY <1>2, <2>1 DEF Direction
  <2>2. CASE p.inbound = FALSE /\ q.inbound = TRUE
    BY <1>2, <2>2 DEF Direction
  <2>3. CASE p.inbound = TRUE /\ q.inbound = TRUE
    BY <2>3
  <2>4. CASE p.inbound = FALSE /\ q.inbound = FALSE
    BY <2>4
  <2>5. QED BY <1>3, <2>1, <2>2, <2>3, <2>4
<1>5. QED BY <1>2, <1>4

(* From TokenWindow bytes on each byte's class is a digit of some token.       *)
LEMMA TokensTell ==
  ASSUME NEW b \in Seq(Bytes), Len(b) >= TokenWindow, NEW i \in DOMAIN b
  PROVE  \E j \in DOMAIN Flow!WindowTokens(b) :
           /\ i - j \in 0 .. (TokenWindow - 1)
           /\ Flow!ByteClass(b[i]) = Flow!Digit(Flow!WindowTokens(b)[j], i - j + 1)
<1> DEFINE c == Flow!Classes(b)
           p == Flow!Padded(c)
           n == Len(p) - TokenWindow + 1
           w == Flow!WindowTokens(b)
<1>1. /\ n \in Nat \ {0} /\ p \in Seq(0 .. 7) /\ DOMAIN w = 1 .. n
      /\ \A j \in 1 .. n : w[j] = Flow!Token(p, j)
  BY TokensAre
<1>2. /\ c \in Seq(0 .. 7) /\ Len(c) = Len(b)
      /\ \A h \in 1 .. Len(b) : c[h] = Flow!ByteClass(b[h])
  BY ClassesType
<1>3. TokenWindow \in Nat \ {0} /\ Len(b) \in Nat /\ i \in 1 .. Len(b)
  BY FeatureAssumption
<1> HIDE DEF c
<1>4. Len(p) = Len(b) /\ p[i] = Flow!ByteClass(b[i])
  BY <1>2, <1>3, PaddedType
<1>5. \A h \in 1 .. Len(b) : p[h] \in 0 .. 7
  <2> HIDE DEF p
  <2>1. p \in [1 .. Len(p) -> 0 .. 7]
    BY <1>1, LenProperties
  <2>2. QED BY <1>4, <2>1
<1> DEFINE j == IF i <= n THEN i ELSE n
<1>6. j \in 1 .. n /\ i - j \in 0 .. (TokenWindow - 1) /\ j \in Nat
      /\ j + TokenWindow - 1 <= Len(b)
  <2> HIDE DEF p, w
  <2>1. n = Len(b) - TokenWindow + 1
    BY <1>4
  <2>2. QED BY <1>1, <1>3, <2>1
<1> HIDE DEF p, w, n, j
<1>7. \A k \in 1 .. TokenWindow : p[j + k - 1] \in 0 .. 7
  <2> SUFFICES ASSUME NEW k \in 1 .. TokenWindow PROVE p[j + k - 1] \in 0 .. 7
    OBVIOUS
  <2>1. j + k - 1 \in 1 .. Len(b)
    BY <1>1, <1>3, <1>6
  <2>2. QED BY <1>5, <2>1
<1>8. i - j + 1 \in 1 .. TokenWindow /\ j + (i - j + 1) - 1 = i
  BY <1>3, <1>6
<1>9. Flow!Digit(Flow!Token(p, j), i - j + 1) = p[j + (i - j + 1) - 1]
  BY <1>6, <1>7, <1>8, DigitOfToken
<1>10. Flow!Digit(w[j], i - j + 1) = Flow!ByteClass(b[i])
  BY <1>1, <1>4, <1>6, <1>8, <1>9
<1>11. QED BY <1>1, <1>6, <1>10 DEF w

(* So it always holds.                                                         *)
LEMMA FlowInvariant == DetectorSpec => []FlowInv
<1>1. DetectorInit => FlowInv
  BY FlowInit DEF DetectorInit
<1>2. FlowInv /\ [DetectorNext]_detectorVars => FlowInv'
  <2>1. [DetectorNext]_detectorVars => [Flow!Next]_flowVars
    BY DEF DetectorNext, Training, Scoring, Fit, Fuse, detectorVars
  <2>2. QED BY <2>1, FlowStep
<1>3. QED BY <1>1, <1>2, PTL DEF DetectorSpec, detectorVars

(* features.py:45 for every extractor, window of tokens and flow: an extractor *)
(* returns at least one symbol and only symbols below the size it reports, so  *)
(* scoring finds a column of the emission matrix for each; and the forward     *)
(* pass keeps natural weights for every window and state.                      *)
THEOREM SymbolsBelowAlphabet == DetectorSpec => []SymbolsInAlphabet
<1>1. FlowInv => SymbolsInAlphabet
  BY DEF FlowInv, SymbolsInAlphabet
<1>2. QED BY <1>1, FlowInvariant, PTL

(* Packets share a symbol only if they share direction, length bin, gap bin    *)
(* and flags, and from TokenWindow bytes on the tokens of a payload determine  *)
(* the classes of its bytes, for every flow.                                   *)
THEOREM SymbolsTell == DetectorSpec => []SymbolsTellApart
<1>1. FlowInv => SymbolsTellApart
  <2> SUFFICES ASSUME FlowInv PROVE Flow!SymbolsTellApart
    BY DEF SymbolsTellApart
  <2>1. <<payload, packets>> \in Traffic
    BY DEF FlowInv, Flow!TypeOK
  <2>2. payload \in Seq(Bytes) /\ packets \in Seq(Flow!Packet)
    BY <2>1, PartAssumptions DEF Flow!FlowScoreAssumption
  <2>3. \A i \in DOMAIN packets : packets[i] \in Flow!Packet
    <3> DEFINE P == Flow!Packet
    <3> HIDE DEF P
    <3>1. packets \in Seq(P)
      BY <2>2 DEF P
    <3>2. \A i \in DOMAIN packets : packets[i] \in P
      BY <3>1, LenProperties
    <3>3. QED BY <3>2 DEF P
  <2>4. QED BY <2>2, <2>3, SymbolParts, TokensTell DEF Flow!SymbolsTellApart
<1>2. QED BY <1>1, FlowInvariant, PTL

------------------------------------------------------------------------------
(* Paths of states, and those that end in one.                                 *)
Paths(n)  == [1 .. n -> States]
To(n, q)  == {p \in Paths(n) : p[n] = q}

(* What a state weighs at a symbol of an extractor.                            *)
Emits(e, q, a) == Emit[e][q][a + 1]

(* The weight along a path, as the property has it for the extractor in place. *)
WeightOf(e, path, s) ==
  LET upto[i \in 1 .. Len(s)] ==
        IF i = 1 THEN Start[path[1]] * Emit[e][path[1]][s[1] + 1]
        ELSE upto[i - 1] * Trans[path[i - 1]][path[i]] * Emit[e][path[i]][s[i] + 1]
  IN  upto[Len(s)]

(* The weights along a path.                                                   *)
Walk(e, u, p, s, n) ==
  /\ u[1] = Start[p[1]] * Emits(e, p[1], s[1])
  /\ \A i \in 2 .. n : u[i] = u[i - 1] * Trans[p[i - 1]][p[i]] * Emits(e, p[i], s[i])

(* Symbols below the alphabet, one for each state of a path.                   *)
Symbolic(e, s, n) == \A i \in 1 .. n : s[i] \in 0 .. (Flow!Alphabet(e) - 1)

LEMMA EmitsType ==
  ASSUME NEW e \in Flow!Extractors, NEW q \in States,
         NEW a \in 0 .. (Flow!Alphabet(e) - 1)
  PROVE  Emits(e, q, a) \in Nat
<1> DEFINE A == Flow!Alphabet(e)
           row == Emit[e][q]
<1>1. row \in Seq(Nat) /\ Len(row) = A
  BY PartAssumptions DEF Flow!FlowScoreAssumption
<1> HIDE DEF row, A
<1>2. row \in [1 .. A -> Nat] /\ A \in Nat
  BY <1>1, LenProperties
<1>3. a + 1 \in 1 .. A
  BY <1>2 DEF A
<1>4. row[a + 1] \in Nat
  BY <1>2, <1>3
<1>5. QED BY <1>4 DEF Emits, row

(* The weight of a path is the last of them.                                   *)
LEMMA PathWeightIs ==
  ASSUME NEW e \in Flow!Extractors, NEW n \in Nat \ {0}, NEW s, Len(s) = n, Symbolic(e, s, n),
         NEW p \in Paths(n)
  PROVE  \E u : /\ \A i \in 1 .. n : u[i] \in Nat
                /\ Walk(e, u, p, s, n)
                /\ WeightOf(e, p, s) = u[n]
<1> DEFINE On(i, v) == IF i = 1 THEN Start[p[1]] * Emit[e][p[1]][s[1] + 1]
                       ELSE v * Trans[p[i - 1]][p[i]] * Emit[e][p[i]][s[i] + 1]
           Is(h) == h = [i \in 1 .. n |-> On(i, h[i - 1])]
           u == CHOOSE h : Is(h)
<1>1. WeightOf(e, p, s) = u[n]
  BY DEF WeightOf
<1>2. ASSUME NEW i \in 1 .. n, NEW v \in Nat PROVE On(i, v) \in Nat
  <2>1. p[i] \in States /\ p[1] \in States /\ 1 \in 1 .. n
    BY DEF Paths
  <2>2. Emits(e, p[i], s[i]) \in Nat /\ Emits(e, p[1], s[1]) \in Nat
    BY <2>1, EmitsType DEF Symbolic
  <2>3. Start \in [States -> Nat] /\ Trans \in [States -> [States -> Nat]]
    BY PartAssumptions DEF Flow!FlowScoreAssumption
  <2>4. CASE i = 1
    <3> DEFINE a == Start[p[1]]
               o == Emits(e, p[1], s[1])
    <3>1. a \in Nat /\ o \in Nat
      BY <2>1, <2>2, <2>3
    <3>2. On(i, v) = a * o
      BY <2>4 DEF Emits
    <3> HIDE DEF a, o, On
    <3>3. QED BY <3>1, <3>2
  <2>5. CASE i # 1
    <3> DEFINE t == Trans[p[i - 1]][p[i]]
               o == Emits(e, p[i], s[i])
    <3>1. i - 1 \in 1 .. n
      BY <2>5
    <3>2. t \in Nat /\ o \in Nat
      BY <2>1, <2>2, <2>3, <3>1 DEF Paths
    <3>3. On(i, v) = v * t * o
      BY <2>5 DEF Emits
    <3> HIDE DEF t, o, On
    <3>4. QED BY <3>2, <3>3
  <2>6. QED BY <2>4, <2>5
<1>3. \A v : On(1, v) = Start[p[1]] * Emits(e, p[1], s[1])
  BY DEF Emits
<1>4. \A v : \A i \in 2 .. n : On(i, v) = v * Trans[p[i - 1]][p[i]] * Emits(e, p[i], s[i])
  BY DEF Emits
<1>5. \A v, w : On(1, v) = On(1, w)
  BY <1>3
<1> HIDE DEF On
<1>6. \E h : Is(h)
  <2> DEFINE g == [iv \in (1 .. n) \X Nat |-> On(iv[1], iv[2])]
  <2>1. \A i \in 1 .. n, v \in Nat : g[<<i, v>>] = On(i, v) /\ g[<<i, v>>] \in Nat
    BY <1>2
  <2> HIDE DEF g
  <2> DEFINE V == Nat
  <2>2. 0 \in V /\ \A i \in 1 .. n, v \in V : g[<<i, v>>] \in V
    BY <2>1
  <2> HIDE DEF V
  <2>3. PICK f : f \in [0 .. n -> V] /\ Follows(f, n, 0, g)
    BY <2>2, Recursion
  <2> DEFINE h == [i \in 1 .. n |-> f[i]]
  <2>4. ASSUME NEW i \in 1 .. n PROVE f[i] = On(i, h[i - 1])
    <3>1. i - 1 \in 0 .. n /\ f[i] = g[<<i, f[i - 1]>>]
      BY <2>3 DEF Follows
    <3>2. f[i - 1] \in V
      BY <2>3, <3>1
    <3>3. f[i] = On(i, f[i - 1])
      BY <2>1, <3>1, <3>2 DEF V
    <3>4. CASE i = 1
      BY <1>5, <3>3, <3>4
    <3>5. CASE i # 1
      <4>1. i - 1 \in 1 .. n
        BY <3>5
      <4>2. h[i - 1] = f[i - 1]
        BY <4>1
      <4>3. QED BY <3>3, <4>2
    <3>6. QED BY <3>4, <3>5
  <2>5. Is(h)
    BY <2>4
  <2>6. QED BY <2>5
<1>7. Is(u)
  BY <1>6
<1> HIDE DEF u
<1>8. \A i \in 1 .. n : u[i] = On(i, u[i - 1])
  BY <1>7
<1>9. Walk(e, u, p, s, n)
  <2>1. 1 \in 1 .. n /\ \A i \in 2 .. n : i \in 1 .. n
    OBVIOUS
  <2>2. QED BY <1>3, <1>4, <1>8, <2>1 DEF Walk
<1> DEFINE N == {i \in Nat : i + 1 <= n => u[i + 1] \in Nat}
<1>10. N \in SUBSET Nat /\ 0 \in N
  <2>1. 1 \in 1 .. n /\ 0 \in Nat /\ 0 + 1 = 1
    OBVIOUS
  <2>2. u[1] = On(1, u[1 - 1]) /\ On(1, u[1 - 1]) = On(1, 0)
    BY <1>5, <1>8, <2>1
  <2>3. u[1] \in Nat
    BY <1>2, <2>1, <2>2
  <2>4. QED BY <2>1, <2>3
<1>11. ASSUME NEW i \in N PROVE i + 1 \in N
  <2> SUFFICES ASSUME (i + 1) + 1 <= n PROVE u[(i + 1) + 1] \in Nat
    OBVIOUS
  <2> DEFINE j == (i + 1) + 1
  <2>1. j \in 1 .. n /\ j - 1 = i + 1 /\ i + 1 <= n
    OBVIOUS
  <2>2. u[j - 1] \in Nat
    BY <2>1
  <2> HIDE DEF j
  <2>3. u[j] \in Nat
    BY <1>2, <1>8, <2>1, <2>2
  <2>4. QED BY <2>3 DEF j
<1> HIDE DEF N
<1>12. N = Nat
  BY <1>10, <1>11, NatSetInduction
<1>13. ASSUME NEW i \in 1 .. n PROVE u[i] \in Nat
  <2>1. i - 1 \in N /\ (i - 1) + 1 = i
    BY <1>12
  <2>2. QED BY <2>1 DEF N
<1>14. QED BY <1>1, <1>9, <1>13

(* The same up to some place.                                                  *)
Agree(f, g, n) == \A i \in 1 .. n : f[i] = g[i]

(* The weights on a beginning of a path, and of its symbols, are the same.     *)
LEMMA WalkBegins ==
  ASSUME NEW e, NEW n \in Nat \ {0}, NEW u, NEW v, NEW p, NEW r, NEW s, NEW w,
         Walk(e, u, p, s, n), Walk(e, v, r, w, n), Agree(p, r, n), Agree(s, w, n)
  PROVE  u[n] = v[n]
<1> USE DEF Agree
<1> DEFINE N == {i \in Nat : i + 1 <= n => u[i + 1] = v[i + 1]}
<1>1. N \in SUBSET Nat /\ 0 \in N
  <2>1. 1 \in 1 .. n /\ 0 \in Nat /\ 0 + 1 = 1
    OBVIOUS
  <2>2. u[1] = v[1]
    BY <2>1 DEF Walk
  <2>3. QED BY <2>1, <2>2
<1>2. ASSUME NEW i \in N PROVE i + 1 \in N
  <2> SUFFICES ASSUME (i + 1) + 1 <= n PROVE u[(i + 1) + 1] = v[(i + 1) + 1]
    OBVIOUS
  <2> DEFINE j == (i + 1) + 1
  <2>1. j \in 1 .. n /\ j \in 2 .. n /\ j - 1 \in 1 .. n /\ j - 1 = i + 1 /\ i + 1 <= n
    OBVIOUS
  <2>2. u[j - 1] = v[j - 1] /\ p[j - 1] = r[j - 1] /\ p[j] = r[j] /\ s[j] = w[j]
    BY <2>1
  <2> HIDE DEF j
  <2>3. u[j] = v[j]
    BY <2>1, <2>2 DEF Walk
  <2>4. QED BY <2>3 DEF j
<1> HIDE DEF N
<1>3. N = Nat
  BY <1>1, <1>2, NatSetInduction
<1>4. n - 1 \in N /\ (n - 1) + 1 = n
  BY <1>3
<1>5. QED BY <1>4 DEF N

(* A path and the symbols it is walked along, one longer: its weight grows by  *)
(* the last transition and the last emission.                                  *)
LEMMA PathGrows ==
  ASSUME NEW e \in Flow!Extractors, NEW n \in Nat \ {0}, NEW s, NEW w,
         Len(s) = n, Len(w) = n + 1, Symbolic(e, s, n), Symbolic(e, w, n + 1),
         NEW p \in Paths(n), NEW r \in Paths(n + 1), Agree(p, r, n), Agree(s, w, n)
  PROVE  WeightOf(e, r, w) =
           WeightOf(e, p, s) * Trans[p[n]][r[n + 1]] * Emits(e, r[n + 1], w[n + 1])
<1>1. PICK u : /\ \A i \in 1 .. n : u[i] \in Nat
               /\ Walk(e, u, p, s, n)
               /\ WeightOf(e, p, s) = u[n]
  BY PathWeightIs
<1>2. n + 1 \in Nat \ {0}
  OBVIOUS
<1>3. PICK v : /\ \A i \in 1 .. (n + 1) : v[i] \in Nat
               /\ Walk(e, v, r, w, n + 1)
               /\ WeightOf(e, r, w) = v[n + 1]
  <2> DEFINE m == n + 1
  <2>1. m \in Nat \ {0} /\ Len(w) = m /\ Symbolic(e, w, m) /\ r \in Paths(m)
    BY <1>2
  <2> HIDE DEF m
  <2>2. \E v : /\ \A i \in 1 .. m : v[i] \in Nat
               /\ Walk(e, v, r, w, m)
               /\ WeightOf(e, r, w) = v[m]
    BY <2>1, PathWeightIs
  <2>3. QED BY <2>2 DEF m
<1>4. n + 1 \in 2 .. (n + 1) /\ (n + 1) - 1 = n /\ n \in 1 .. n /\ 2 .. n \subseteq 2 .. (n + 1)
  OBVIOUS
<1>5. /\ v[n + 1] = v[n] * Trans[r[n]][r[n + 1]] * Emits(e, r[n + 1], w[n + 1])
      /\ Walk(e, v, r, w, n)
  BY <1>3, <1>4 DEF Walk
<1>6. u[n] = v[n]
  BY <1>1, <1>5, WalkBegins
<1>7. p[n] = r[n]
  BY <1>4 DEF Agree
<1>8. QED BY <1>1, <1>3, <1>5, <1>6, <1>7

(* The first so many symbols of a sequence.                                    *)
Begun(w, n) == SubSeq(w, 1, n)

LEMMA BegunIs ==
  ASSUME NEW e \in Flow!Extractors, NEW m \in Nat, NEW w, Symbolic(e, w, m), NEW n \in 1 .. m
  PROVE  /\ Len(Begun(w, n)) = n /\ Symbolic(e, Begun(w, n), n)
         /\ \A i \in 1 .. n : Begun(w, n)[i] = w[i]
<1> DEFINE S == 0 .. (Flow!Alphabet(e) - 1)
<1>1. \A i \in 1 .. n : w[i] \in S
  BY DEF Symbolic
<1> HIDE DEF S
<1>2. /\ Len(SubSeq(w, 1, n)) = IF 1 <= n THEN n - 1 + 1 ELSE 0
      /\ \A i \in 1 .. (n - 1 + 1) : SubSeq(w, 1, n)[i] = w[1 + i - 1]
  <2>1. 1 \in Int /\ n \in Int
    OBVIOUS
  <2>2. QED BY <1>1, <2>1, SubSeqProperties
<1>3. n - 1 + 1 = n /\ 1 <= n /\ \A i \in 1 .. n : 1 + i - 1 = i
  OBVIOUS
<1>4. Len(Begun(w, n)) = n /\ \A i \in 1 .. n : Begun(w, n)[i] = w[i]
  BY <1>2, <1>3 DEF Begun
<1>5. QED BY <1>1, <1>4 DEF Symbolic, S

(* The sum of the weights of a beginning over the paths that end in a state.   *)
Along(e, w, n, q)   == [p \in To(n, q) |-> WeightOf(e, p, Begun(w, n))]
PathSum(e, w, n, q) == Total(Along(e, w, n, q), To(n, q))

(* At the first symbol there is one path to each state.                        *)
LEMMA FirstSum ==
  ASSUME NEW e \in Flow!Extractors, NEW m \in Nat \ {0}, NEW w, Symbolic(e, w, m), NEW q \in States
  PROVE  PathSum(e, w, 1, q) = Start[q] * Emits(e, q, w[1])
<1> DEFINE p == [i \in 1 .. 1 |-> q]
           c == WeightOf(e, p, Begun(w, 1))
           f == Along(e, w, 1, q)
<1>1. p \in To(1, q) /\ \A r \in To(1, q) : r = p
  <2>1. p \in To(1, q)
    BY DEF To, Paths
  <2>2. ASSUME NEW r \in To(1, q) PROVE r = p
    <3>1. r \in [1 .. 1 -> States] /\ r[1] = q
      BY DEF To, Paths
    <3>2. QED BY <3>1
  <2>3. QED BY <2>1, <2>2
<1>2. To(1, q) = {p} /\ p[1] = q /\ p \in Paths(1)
  <2>1. To(1, q) = {p}
    <3> HIDE DEF p
    <3>1. QED BY <1>1
  <2>2. QED BY <1>1, <2>1 DEF To
<1> HIDE DEF p
<1>3. 1 \in 1 .. m /\ 1 \in Nat \ {0} /\ 1 \in 1 .. 1
  OBVIOUS
<1>4. Len(Begun(w, 1)) = 1 /\ Symbolic(e, Begun(w, 1), 1) /\ Begun(w, 1)[1] = w[1]
  <2> DEFINE l == 1
  <2>1. l \in 1 .. m /\ m \in Nat /\ 1 \in 1 .. l
    BY <1>3
  <2> HIDE DEF l
  <2>2. /\ Len(Begun(w, l)) = l /\ Symbolic(e, Begun(w, l), l)
        /\ \A i \in 1 .. l : Begun(w, l)[i] = w[i]
    BY <2>1, BegunIs
  <2>3. Begun(w, l)[1] = w[1]
    BY <2>1, <2>2
  <2>4. QED BY <2>2, <2>3 DEF l
<1>5. PICK u : /\ \A i \in 1 .. 1 : u[i] \in Nat
               /\ Walk(e, u, p, Begun(w, 1), 1) /\ c = u[1]
  BY <1>2, <1>3, <1>4, PathWeightIs
<1>6. c = Start[q] * Emits(e, q, w[1]) /\ c \in Nat
  BY <1>2, <1>3, <1>4, <1>5 DEF Walk
<1>7. f[p] = c
  BY <1>1 DEF Along
<1> HIDE DEF c, f
<1>8. Total(f, {p}) = Cardinality({p}) * c
  <2>1. IsFiniteSet({p})
    BY FS_Singleton
  <2>2. c \in Int /\ \A x \in {p} : f[x] = c
    BY <1>6, <1>7
  <2>3. QED BY <2>1, <2>2, TotalOfSame
<1>9. Cardinality({p}) = 1
  BY FS_Singleton
<1>10. Total(f, {p}) = c
  BY <1>6, <1>8, <1>9
<1>11. QED BY <1>2, <1>6, <1>10 DEF PathSum, f

(* One more symbol: from every state a path may be extended to every state.    *)
LEMMA NextSum ==
  ASSUME NEW e \in Flow!Extractors, NEW m \in Nat, NEW w, Symbolic(e, w, m),
         NEW n \in 1 .. (m - 1), NEW a \in [States -> Nat],
         \A p \in States : a[p] = PathSum(e, w, n, p), NEW q \in States
  PROVE  PathSum(e, w, n + 1, q) =
           Total([p \in States |-> a[p] * Trans[p][q]], States) * Emits(e, q, w[n + 1])
<1> DEFINE X == Paths(n)
           s == Begun(w, n)
           z == Begun(w, n + 1)
           o == Emits(e, q, w[n + 1])
           k == [p \in X |-> p[n]]
           f == [p \in X |-> WeightOf(e, p, s) * Trans[p[n]][q]]
           h == [p \in States |-> a[p] * Trans[p][q]]
           b == [p \in X |-> [i \in 1 .. (n + 1) |-> IF i = n + 1 THEN q ELSE p[i]]]
           g == Along(e, w, n + 1, q)
<1>1. /\ n \in Nat \ {0} /\ n + 1 \in 1 .. m /\ n \in 1 .. m /\ n \in 1 .. n /\ n + 1 \in Nat
      /\ 1 .. n \subseteq 1 .. (n + 1) /\ n + 1 \in 1 .. (n + 1)
      /\ 1 .. (n + 1) = 1 .. n \cup {n + 1} /\ n + 1 \notin 1 .. n
  OBVIOUS
<1>2. /\ Len(s) = n /\ Symbolic(e, s, n) /\ \A i \in 1 .. n : s[i] = w[i]
  BY <1>1, BegunIs
<1>3. /\ Len(z) = n + 1 /\ Symbolic(e, z, n + 1) /\ \A i \in 1 .. (n + 1) : z[i] = w[i]
  <2> DEFINE l == n + 1
  <2>1. l \in 1 .. m
    BY <1>1
  <2> HIDE DEF l
  <2>2. /\ Len(Begun(w, l)) = l /\ Symbolic(e, Begun(w, l), l)
        /\ \A i \in 1 .. l : Begun(w, l)[i] = w[i]
    BY <2>1, BegunIs
  <2>3. QED BY <2>2 DEF l
<1>4. IsFiniteSet(States) /\ Trans \in [States -> [States -> Nat]]
  BY PartAssumptions, FlowLibrary DEF Flow!FlowScoreAssumption
<1>5. IsFiniteSet(X)
  BY <1>1, <1>4, TuplesFinite DEF Paths
<1>6. \A p \in X : p[n] \in States
  BY <1>1 DEF Paths
<1>7. ASSUME NEW p \in X PROVE WeightOf(e, p, s) \in Nat
  <2>1. PICK u : /\ \A i \in 1 .. n : u[i] \in Nat
                 /\ WeightOf(e, p, s) = u[n]
    BY <1>1, <1>2, PathWeightIs
  <2>2. QED BY <1>1, <2>1
<1>8. o \in Nat
  <2>1. w[n + 1] \in 0 .. (Flow!Alphabet(e) - 1)
    BY <1>1 DEF Symbolic
  <2>2. QED BY <2>1, EmitsType
<1>9. ASSUME NEW p \in X
      PROVE  /\ f[p] \in Int /\ k[p] \in States
  <2> DEFINE x == WeightOf(e, p, s)
             y == Trans[p[n]][q]
  <2>1. x \in Nat /\ y \in Nat
    BY <1>4, <1>6, <1>7
  <2>2. f[p] = x * y /\ k[p] \in States
    BY <1>6
  <2> HIDE DEF x, y, f, k
  <2>3. QED BY <2>1, <2>2
<1>10. ASSUME NEW t \in States PROVE h[t] = Total(f, {p \in X : k[p] = t})
  <2> DEFINE T == To(n, t)
             d == Along(e, w, n, t)
             c == Trans[t][q]
  <2>1. {p \in X : k[p] = t} = T
    BY DEF To
  <2>2. IsFiniteSet(T) /\ T \subseteq X
    BY <1>5, FS_Subset DEF To
  <2>3. c \in Int
    BY <1>4
  <2>4. \A p \in T : d[p] \in Int /\ f[p] = d[p] * c
    BY <1>7 DEF To, Along
  <2>5. h[t] = Total(d, T) * c
    BY DEF PathSum
  <2> HIDE DEF T, d, c, f, k, h
  <2>6. Total(f, T) = Total(d, T) * c
    BY <2>2, <2>3, <2>4, TotalTimes
  <2>7. QED BY <2>1, <2>5, <2>6
<1>11. ASSUME NEW p \in X
       PROVE  /\ b[p] \in To(n + 1, q)
              /\ g[b[p]] = f[p] * o
  <2> DEFINE r == b[p]
  <2>1. r \in Paths(n + 1) /\ r[n + 1] = q /\ \A i \in 1 .. n : r[i] = p[i]
    BY <1>1 DEF Paths
  <2>2. r \in To(n + 1, q)
    BY <2>1 DEF To
  <2> HIDE DEF r
  <2>3. g[r] = WeightOf(e, r, z)
    BY <2>2 DEF Along
  <2>4. WeightOf(e, r, z) = WeightOf(e, p, s) * Trans[p[n]][r[n + 1]] * Emits(e, r[n + 1], z[n + 1])
    <3>1. Agree(p, r, n) /\ Agree(s, z, n)
      BY <1>1, <1>2, <1>3, <2>1 DEF Agree
    <3>2. n \in Nat \ {0} /\ p \in Paths(n) /\ r \in Paths(n + 1)
      BY <1>1, <2>1
    <3> HIDE DEF s, z, X
    <3>3. QED BY <1>2, <1>3, <3>1, <3>2, PathGrows
  <2>5. Emits(e, r[n + 1], z[n + 1]) = o
    BY <1>1, <1>3, <2>1
  <2>6. g[r] = f[p] * o
    BY <2>1, <2>3, <2>4, <2>5
  <2>7. QED BY <2>2, <2>6 DEF r
<1>12. ASSUME NEW p \in X, NEW r \in X, b[p] = b[r] PROVE p = r
  <2>1. ASSUME NEW i \in 1 .. n PROVE p[i] = r[i]
    <3>1. b[p][i] = p[i] /\ b[r][i] = r[i]
      BY <1>1
    <3>2. QED BY <1>12, <3>1
  <2>2. QED BY <2>1 DEF Paths
<1>13. {b[p] : p \in X} = To(n + 1, q)
  <2>1. ASSUME NEW r \in To(n + 1, q) PROVE \E p \in X : r = b[p]
    <3> DEFINE p == [i \in 1 .. n |-> r[i]]
    <3>1. r \in [1 .. (n + 1) -> States] /\ r[n + 1] = q
      BY DEF To, Paths
    <3>2. p \in X
      BY <1>1, <3>1 DEF Paths
    <3>3. r = b[p]
      BY <1>1, <3>1, <3>2
    <3>4. QED BY <3>2, <3>3
  <2> HIDE DEF b, X
  <2>2. QED BY <1>11, <2>1
<1> HIDE DEF X, s, z, o, k, f, h, b, g
<1>14. Total(h, States) = Total(f, X)
  <2>1. \A p \in X : f[p] \in Int /\ k[p] \in States
    BY <1>9
  <2>2. \A t \in States : h[t] = Total(f, {p \in X : k[p] = t})
    BY <1>10
  <2>3. ByClass(X, States, k, f, h)
    BY <2>1, <2>2 DEF ByClass
  <2>4. QED BY <1>4, <1>5, <2>3, TotalByClass
<1>15. Total(g, {b[p] : p \in X}) = Total(f, X) * o
  <2>1. o \in Int
    BY <1>8
  <2>2. \A p \in X : f[p] \in Int /\ g[b[p]] = f[p] * o
    BY <1>9, <1>11
  <2>3. \A p, r \in X : b[p] = b[r] => p = r
    BY <1>12
  <2>4. QED BY <1>5, <2>1, <2>2, <2>3, TotalScaled
<1>16. PathSum(e, w, n + 1, q) = Total(h, States) * o
  BY <1>13, <1>14, <1>15 DEF PathSum, g
<1>17. QED BY <1>16, Zenon DEF h, o

(* After t steps alpha holds those sums.                                       *)
AlphaInv ==
  step # -1 =>
    \A j \in 1 .. Flow!NWindows(Flow!Symbols), q \in States :
      alpha[j][q] = PathSum(extractor, Flow!SlidingWindows(Flow!Symbols)[j], step + 1, q)

(* The symbols of a window.                                                    *)
LEMMA WindowSymbols ==
  ASSUME extractor \in Flow!Extractors,
         NEW s \in Seq(0 .. (Flow!Alphabet(extractor) - 1)), Len(s) > Window,
         NEW j \in 1 .. Flow!NWindows(s)
  PROVE  LET w == Flow!SlidingWindows(s)[j]
         IN  /\ Symbolic(extractor, w, Window)
             /\ \A t \in 0 .. (Window - 1), q \in States :
                  Flow!Emitted(s, j, t, q) = Emits(extractor, q, w[t + 1])
<1> DEFINE S == 0 .. (Flow!Alphabet(extractor) - 1)
           n == Flow!NWindows(s)
           w == Flow!SlidingWindows(s)[j]
           k == j + Window - 1
<1> HIDE DEF S
<1>1. s \in Seq(S)
  BY DEF S
<1>2. Window \in Nat \ {0} /\ Len(s) \in Nat /\ n = Len(s) - Window + 1
  BY <1>1, PartAssumptions DEF Flow!FlowScoreAssumption, Flow!NWindows
<1>3. w = SubSeq(s, j, k)
  BY <1>1, WindowsAre
<1>4. j \in Int /\ k \in Int /\ k - j + 1 = Window
  BY <1>2
<1>5. \A i \in j .. k : i \in 1 .. Len(s)
  BY <1>2
<1>6. \A i \in j .. k : s[i] \in S
  BY <1>1, <1>5, LenProperties
<1> HIDE DEF w, k, n
<1>7. \A i \in 1 .. Window : w[i] = s[j + i - 1]
  BY <1>3, <1>4, <1>6, SubSeqProperties
<1>8. ASSUME NEW i \in 1 .. Window PROVE w[i] \in S
  <2>1. j + i - 1 \in j .. k
    BY <1>2, <1>4 DEF k
  <2>2. QED BY <1>6, <1>7, <2>1
<1>9. ASSUME NEW t \in 0 .. (Window - 1), NEW q \in States
      PROVE  Flow!Emitted(s, j, t, q) = Emits(extractor, q, w[t + 1])
  <2>1. t + 1 \in 1 .. Window /\ j + (t + 1) - 1 = j + t
    BY <1>2, <1>4
  <2>2. w[t + 1] = s[j + t]
    BY <1>7, <2>1
  <2>3. QED BY <2>2 DEF Emits, Flow!Emitted
<1>10. QED BY <1>8, <1>9 DEF Symbolic, S, w

(* Every step of all windows at once keeps it.                                 *)
LEMMA AlphaStep == FlowInv /\ AlphaInv /\ [Flow!Next]_flowVars => AlphaInv'
<1> SUFFICES ASSUME FlowInv, AlphaInv, [Flow!Next]_flowVars, step' # -1 PROVE AlphaInv'
  BY DEF AlphaInv
<1> DEFINE s == Flow!Symbols
           A == Flow!Alphabet(extractor)
           n == Flow!NWindows(s)
           cut == Flow!SlidingWindows(s)
<1>1. /\ extractor \in Flow!Extractors /\ <<payload, packets>> \in Traffic
      /\ step \in -1 .. (Window - 1) /\ (step # -1 => Len(s) > Window)
      /\ step # -1 => alpha \in [1 .. Len(cut) -> [States -> Nat]]
  BY DEF FlowInv, Flow!TypeOK
<1>2. Window \in Nat \ {0} /\ Start \in [States -> Nat]
  BY PartAssumptions DEF Flow!FlowScoreAssumption
<1>3. s \in Seq(0 .. (A - 1))
  BY <1>1, FlowFacts DEF Flow!Symbols
<1>4. ASSUME UNCHANGED <<extractor, payload, packets>>,
             \A j \in 1 .. n, q \in States : alpha'[j][q] = PathSum(extractor, cut[j], step' + 1, q)
      PROVE  AlphaInv'
  <2>1. Flow!Symbols' = s
    BY <1>4 DEF Flow!Symbols
  <2>2. Flow!NWindows(Flow!Symbols)' = n /\ Flow!SlidingWindows(Flow!Symbols)' = cut
    BY <2>1 DEF Flow!NWindows, Flow!SlidingWindows
  <2> HIDE DEF s, n, cut
  <2>3. QED BY <1>4, <2>2 DEF AlphaInv
<1>5. CASE Flow!AppendByte \/ Flow!AppendPacket
  BY <1>5 DEF Flow!AppendByte, Flow!AppendPacket
<1>6. CASE Flow!Score
  <2>1. /\ step = -1 /\ step' = 0 /\ Len(s) > Window /\ UNCHANGED <<extractor, payload, packets>>
        /\ alpha' = [j \in 1 .. n |-> [q \in States |-> Start[q] * Flow!Emitted(s, j, 0, q)]]
    BY <1>6 DEF Flow!Score
  <2>2. ASSUME NEW j \in 1 .. n, NEW q \in States
        PROVE  alpha'[j][q] = PathSum(extractor, cut[j], step' + 1, q)
    <3> DEFINE w == cut[j]
    <3>1. alpha'[j][q] = Start[q] * Flow!Emitted(s, j, 0, q)
      BY <2>1
    <3>2. 0 \in 0 .. (Window - 1) /\ 0 + 1 = 1 /\ step' + 1 = 1
      BY <1>2, <2>1
    <3>3. Symbolic(extractor, w, Window) /\ Flow!Emitted(s, j, 0, q) = Emits(extractor, q, w[1])
      <4> HIDE DEF s
      <4>1. QED BY <1>1, <1>3, <2>1, <3>2, WindowSymbols
    <3> HIDE DEF w
    <3>4. PathSum(extractor, w, 1, q) = Start[q] * Emits(extractor, q, w[1])
      BY <1>1, <1>2, <3>3, FirstSum
    <3>5. QED BY <3>1, <3>2, <3>3, <3>4 DEF w
  <2> HIDE DEF s, n, cut
  <2>3. QED BY <1>4, <2>1, <2>2
<1>7. CASE Flow!Step
  <2>1. /\ step \in 0 .. (Window - 2) /\ step' = step + 1
        /\ UNCHANGED <<extractor, payload, packets>>
        /\ alpha' = [j \in DOMAIN alpha |->
                       [q \in States |-> Flow!Reached(j, q) * Flow!Emitted(s, j, step', q)]]
    BY <1>7 DEF Flow!Step
  <2>2. step # -1 /\ Len(s) > Window /\ step' \in 0 .. (Window - 1)
    BY <1>1, <1>2, <2>1
  <2>3. Len(cut) = n
    <3> HIDE DEF s
    <3>1. QED BY <1>3, <2>2, WindowsAre
  <2>4. alpha \in [1 .. n -> [States -> Nat]]
    BY <1>1, <2>2, <2>3
  <2>5. \A j \in 1 .. n, q \in States : alpha[j][q] = PathSum(extractor, cut[j], step + 1, q)
    BY <2>2 DEF AlphaInv
  <2>6. ASSUME NEW j \in 1 .. n, NEW q \in States
        PROVE  alpha'[j][q] = PathSum(extractor, cut[j], step' + 1, q)
    <3> DEFINE w == cut[j]
               h == [p \in States |-> alpha[j][p] * Trans[p][q]]
               m == step + 1
    <3>1. alpha'[j][q] = Flow!Reached(j, q) * Flow!Emitted(s, j, step', q)
      <4> HIDE DEF n, s
      <4>1. QED BY <2>1, <2>4
    <3>2. /\ Symbolic(extractor, w, Window)
          /\ Flow!Emitted(s, j, step', q) = Emits(extractor, q, w[step' + 1])
      <4> HIDE DEF s
      <4>1. QED BY <1>1, <1>3, <2>2, WindowSymbols
    <3>3. Flow!Reached(j, q) = Total(h, States)
      <4>1. Flow!Reached(j, q) = Flow!SumOver(h) /\ DOMAIN h = States
        BY DEF Flow!Reached
      <4> HIDE DEF h
      <4>2. QED BY <4>1, FlowLibrary
    <3>4. m \in 1 .. (Window - 1) /\ step' + 1 = m + 1 /\ Window \in Nat
      BY <1>2, <2>1
    <3>5. /\ alpha[j] \in [States -> Nat]
          /\ \A p \in States : alpha[j][p] = PathSum(extractor, w, m, p)
      <4> HIDE DEF s, n, cut
      <4>1. QED BY <2>4, <2>5
    <3> HIDE DEF w, m, s, n, cut
    <3>6. PathSum(extractor, w, m + 1, q) = Total(h, States) * Emits(extractor, q, w[m + 1])
      <4> DEFINE a == alpha[j]
      <4>1. h = [p \in States |-> a[p] * Trans[p][q]]
        OBVIOUS
      <4> HIDE DEF h
      <4>2. a \in [States -> Nat] /\ \A p \in States : a[p] = PathSum(extractor, w, m, p)
        BY <3>5
      <4> HIDE DEF a
      <4>3. PathSum(extractor, w, m + 1, q) =
              Total([p \in States |-> a[p] * Trans[p][q]], States) * Emits(extractor, q, w[m + 1])
        BY <1>1, <3>2, <3>4, <4>2, NextSum
      <4>4. QED BY <4>1, <4>3
    <3> HIDE DEF h
    <3>7. QED BY <3>1, <3>2, <3>3, <3>4, <3>6 DEF w
  <2> HIDE DEF s, n, cut
  <2>7. QED BY <1>4, <2>1, <2>6
<1>8. CASE Flow!Scored
  BY <1>8 DEF Flow!Scored
<1>9. CASE UNCHANGED flowVars
  <2>1. UNCHANGED <<extractor, payload, packets, step, alpha>>
    BY <1>9 DEF flowVars
  <2>2. QED BY <1>4, <2>1 DEF AlphaInv
<1>10. QED BY <1>5, <1>6, <1>7, <1>8, <1>9 DEF Flow!Next

(* Scoring all windows at once, one symbol of each per step, has at every step *)
(* given each window and state what the window's symbols so far weigh over all *)
(* paths that end there, for every model, flow, extractor and window.          *)
THEOREM AllWindowsAtOnce == DetectorSpec => []AlphaIsPathSum
<1>1. DetectorInit => AlphaInv
  BY DEF DetectorInit, Flow!Init, AlphaInv
<1>2. FlowInv /\ AlphaInv /\ [DetectorNext]_detectorVars => AlphaInv'
  <2>1. [DetectorNext]_detectorVars => [Flow!Next]_flowVars
    BY DEF DetectorNext, Training, Scoring, Fit, Fuse, detectorVars
  <2>2. QED BY <2>1, AlphaStep
<1>3. FlowInv /\ AlphaInv => AlphaIsPathSum
  <2> SUFFICES ASSUME FlowInv, AlphaInv, step # -1,
                      NEW j \in 1 .. Flow!NWindows(Flow!Symbols), NEW q \in States
               PROVE  alpha[j][q] =
                        LET begun == SubSeq(Flow!SlidingWindows(Flow!Symbols)[j], 1, step + 1)
                            paths == {p \in [1 .. (step + 1) -> States] : p[step + 1] = q}
                        IN  Flow!SumOver([p \in paths |-> Flow!PathWeight(p, begun)])
    BY DEF AlphaIsPathSum, Flow!AlphaIsPathSum
  <2> DEFINE w == Flow!SlidingWindows(Flow!Symbols)[j]
             n == step + 1
             f == [p \in To(n, q) |-> Flow!PathWeight(p, Begun(w, n))]
  <2>1. DOMAIN f = To(n, q) /\ f = Along(extractor, w, n, q)
    BY DEF Along, WeightOf, Flow!PathWeight
  <2>2. alpha[j][q] = PathSum(extractor, w, n, q)
    BY DEF AlphaInv
  <2>3. Flow!SumOver(f) = PathSum(extractor, w, n, q)
    <3> HIDE DEF f
    <3>1. QED BY <2>1, FlowLibrary DEF PathSum
  <2>4. QED BY <2>2, <2>3 DEF To, Paths, Begun
<1>4. QED BY <1>1, <1>2, <1>3, FlowInvariant, PTL DEF DetectorSpec, detectorVars

------------------------------------------------------------------------------
(* The verdict of an ensemble.                                                 *)

(* The positions of the scores below x, and of those that are not above it.    *)
Below(f, n, x)    == {i \in 1 .. n : f[i] < x}

NotAbove(f, n, x) == {i \in 1 .. n : f[i] <= x}

IsKth(f, n, k, x) == /\ Cardinality(Below(f, n, x)) < k
                     /\ k <= Cardinality(NotAbove(f, n, x))

(* Both are finite.                                                            *)
LEMMA Counts ==
  ASSUME NEW n \in Nat, NEW f, NEW x
  PROVE  /\ IsFiniteSet(Below(f, n, x)) /\ Cardinality(Below(f, n, x)) \in Nat
         /\ IsFiniteSet(NotAbove(f, n, x)) /\ Cardinality(NotAbove(f, n, x)) \in Nat
<1> DEFINE T == 1 .. n
<1>1. IsFiniteSet(T)
  <2>1. 1 \in Int /\ n \in Int
    OBVIOUS
  <2>2. QED BY <2>1, FS_Interval
<1>2. Below(f, n, x) \subseteq T /\ NotAbove(f, n, x) \subseteq T
  BY DEF Below, NotAbove
<1> HIDE DEF T
<1>3. QED BY <1>1, <1>2, FS_Subset, FS_CardinalityType

(* Among n scores there is, for each k up to n, a k-th.                        *)
LEMMA KthExists ==
  ASSUME NEW n \in Nat, NEW f, \A i \in 1 .. n : f[i] \in Int, NEW k \in 1 .. n
  PROVE  \E i \in 1 .. n : IsKth(f, n, k, f[i])
<1> DEFINE T == 1 .. n
           c(i) == Cardinality(NotAbove(f, n, f[i]))
           R == {r \in Nat : k <= r /\ \E i \in T : r = c(i)}
<1>1. IsFiniteSet(T) /\ T # {} /\ Cardinality(T) = n /\ 1 \in T
  <2>1. 1 \in Int /\ n \in Int /\ 1 <= n
    OBVIOUS
  <2>2. IsFiniteSet(T) /\ Cardinality(T) = n
    <3>1. IsFiniteSet(T) /\ Cardinality(T) = IF 1 > n THEN 0 ELSE n - 1 + 1
      BY <2>1, FS_Interval
    <3> HIDE DEF T
    <3>2. QED BY <2>1, <3>1
  <2>3. 1 \in T
    BY <2>1
  <2>4. QED BY <2>2, <2>3
<1>2. R # {}
  <2>1. PICK i \in T : \A j \in T : f[j] <= f[i]
    <3> HIDE DEF T
    <3>1. \A i \in T : f[i] \in Int
      BY DEF T
    <3>2. QED BY <1>1, <3>1, Extremes
  <2>2. NotAbove(f, n, f[i]) = T
    BY <2>1 DEF NotAbove
  <2>3. c(i) = n
    BY <1>1, <2>2
  <2>4. QED BY <2>3
<1>3. PICK r \in R : \A m \in R : r <= m
  BY <1>2, LeastExists
<1>4. PICK i \in T : r = c(i) /\ k <= c(i)
  OBVIOUS
<1>5. Cardinality(Below(f, n, f[i])) < k
  <2> DEFINE B == Below(f, n, f[i])
  <2>1. CASE B = {}
    <3>1. Cardinality(B) = 0
      BY <2>1, FS_EmptySet
    <3>2. QED BY <3>1
  <2>2. CASE B # {}
    <3>1. IsFiniteSet(B) /\ \A j \in B : f[j] \in Int
      BY Counts DEF Below
    <3>2. PICK j \in B : \A h \in B : f[h] <= f[j]
      <4> HIDE DEF B
      <4>1. QED BY <2>2, <3>1, Extremes
    <3>3. j \in T /\ f[j] < f[i] /\ f[j] \in Int /\ f[i] \in Int
      BY DEF Below
    <3>4. B = NotAbove(f, n, f[j])
      BY <3>2, <3>3 DEF Below, NotAbove
    <3>5. NotAbove(f, n, f[j]) \subseteq NotAbove(f, n, f[i])
      BY <3>3 DEF NotAbove
    <3>6. i \in NotAbove(f, n, f[i]) /\ i \notin NotAbove(f, n, f[j])
      BY <3>3 DEF NotAbove
    <3>7. c(j) < c(i)
      <4> DEFINE U == NotAbove(f, n, f[i])
                 V == NotAbove(f, n, f[j])
      <4>1. IsFiniteSet(U) /\ V \subseteq U /\ V # U
        BY <3>5, <3>6, Counts
      <4> HIDE DEF U, V
      <4>2. Cardinality(V) <= Cardinality(U) /\ Cardinality(V) # Cardinality(U)
        BY <4>1, FS_Subset
      <4>3. Cardinality(U) \in Nat /\ Cardinality(V) \in Nat
        BY <4>1, FS_Subset, FS_CardinalityType
      <4>4. QED BY <4>2, <4>3 DEF U, V
    <3>8. c(j) \in Nat /\ c(i) \in Nat
      BY Counts
    <3> HIDE DEF c
    <3>9. ~ (k <= c(j))
      BY <1>3, <1>4, <3>3, <3>7, <3>8
    <3>10. QED BY <3>4, <3>8, <3>9 DEF c
  <2>3. QED BY <2>1, <2>2
<1>6. QED BY <1>4, <1>5 DEF IsKth

(* Scores that are at most, or at least, so many times others.                 *)
UpToTimes(f, n, c, g) == \A i \in 1 .. n : f[i] <= c * g[i]

FromTimes(f, n, c, g) == \A i \in 1 .. n : c * g[i] <= f[i]

Integers(f, n)        == \A i \in 1 .. n : f[i] \in Int

(* The k-th of larger scores is no smaller.                                    *)
LEMMA KthMonotone ==
  ASSUME NEW n \in Nat, NEW k \in 1 .. n, NEW c \in Nat \ {0},
         NEW f, Integers(f, n), NEW x \in Int, IsKth(f, n, k, x),
         NEW g, Integers(g, n), NEW y \in Int, IsKth(g, n, k, y)
  PROVE  /\ UpToTimes(f, n, c, g) => x <= c * y
         /\ FromTimes(f, n, c, g) => c * y <= x
<1>1. /\ IsFiniteSet(Below(f, n, x)) /\ Cardinality(Below(f, n, x)) \in Nat
      /\ IsFiniteSet(Below(g, n, y)) /\ Cardinality(Below(g, n, y)) \in Nat
      /\ Cardinality(NotAbove(f, n, x)) \in Nat /\ Cardinality(NotAbove(g, n, y)) \in Nat
  BY Counts
<1>2. /\ Cardinality(Below(f, n, x)) < k /\ k <= Cardinality(NotAbove(f, n, x))
      /\ Cardinality(Below(g, n, y)) < k /\ k <= Cardinality(NotAbove(g, n, y))
  BY DEF IsKth
<1>3. /\ c * y \in Int /\ c \in Int /\ \A i \in 1 .. n : f[i] \in Int /\ g[i] \in Int
      /\ \A i \in 1 .. n : c * g[i] \in Int
  BY TimesInt DEF Integers
<1>4. ASSUME \A i \in 1 .. n : f[i] <= c * g[i], c * y < x PROVE FALSE
  <2>1. ASSUME NEW i \in 1 .. n, g[i] <= y PROVE f[i] < x
    <3>1. g[i] * c <= y * c
      BY <1>3, <2>1, TimesMonotone
    <3>2. c * g[i] <= c * y
      BY <1>3, <3>1
    <3>3. QED BY <1>3, <1>4, <3>2
  <2>2. NotAbove(g, n, y) \subseteq Below(f, n, x)
    BY <2>1 DEF NotAbove, Below
  <2>3. Cardinality(NotAbove(g, n, y)) <= Cardinality(Below(f, n, x))
    BY <1>1, <2>2, FS_Subset
  <2>4. QED BY <1>1, <1>2, <2>3
<1>5. ASSUME \A i \in 1 .. n : c * g[i] <= f[i], x < c * y PROVE FALSE
  <2>1. ASSUME NEW i \in 1 .. n, f[i] <= x PROVE g[i] < y
    <3> SUFFICES ASSUME y <= g[i] PROVE FALSE
      BY <1>3
    <3>1. y * c <= g[i] * c
      BY <1>3, TimesMonotone
    <3>2. c * y <= c * g[i]
      BY <1>3, <3>1
    <3>3. c * g[i] <= f[i] /\ f[i] \in Int /\ c * g[i] \in Int
      BY <1>3, <1>5
    <3>4. QED BY <1>3, <1>5, <2>1, <3>2, <3>3
  <2>2. NotAbove(f, n, x) \subseteq Below(g, n, y)
    BY <2>1 DEF NotAbove, Below
  <2>3. Cardinality(NotAbove(f, n, x)) <= Cardinality(Below(g, n, y))
    BY <1>1, <2>2, FS_Subset
  <2>4. QED BY <1>1, <1>2, <2>3
<1>6. QED BY <1>3, <1>4, <1>5 DEF UpToTimes, FromTimes

(* An instance has the library's operators under names of its own.             *)
LEMMA EnsembleLibrary ==
  /\ \A S : Ensembles!Cardinality(S) = Cardinality(S)
  /\ \A s : Ensembles!ToSet(s) = {s[i] : i \in DOMAIN s}
  /\ \A flow : Ensembles!Total(flow) = Total(flow, Members)
  /\ \A s, q : Ensembles!Quantile(s, q) = Quantile(s, q)
  /\ IsFiniteSet(Members)
<1>1. ASSUME NEW S PROVE Ensembles!Cardinality(S) = Cardinality(S)
  BY DEF Ensembles!Cardinality, Cardinality
<1>2. ASSUME NEW s PROVE Ensembles!ToSet(s) = {s[i] : i \in DOMAIN s}
  BY DEF Ensembles!ToSet
<1>3. ASSUME NEW flow PROVE Ensembles!Total(flow) = Total(flow, Members)
  BY DEF Ensembles!Total, Total, MapThenSumSet, MapThenFoldSet,
         Ensembles!MapThenSumSet, Ensembles!MapThenFoldSet
<1>4. ASSUME NEW s, NEW q PROVE Ensembles!Quantile(s, q) = Quantile(s, q)
  BY DEF Ensembles!Quantile, Ensembles!Position, Ensembles!Remainder,
         Quantile, Position, Remainder
<1>5. IsFiniteSet(Members)
  BY PartAssumptions DEF Ensembles!EnsembleAssumption, Ensembles!IsFiniteSet, IsFiniteSet
<1>6. QED BY <1>1, <1>2, <1>3, <1>4, <1>5

(* Putting scores in order: the k-th at k, which sorts them.                   *)
LEMMA OrderIs ==
  ASSUME NEW s \in Seq(Int)
  PROVE  /\ Ensembles!InOrder(s) \in Seq(Int) /\ Len(Ensembles!InOrder(s)) = Len(s)
         /\ \A k \in 1 .. Len(s) : IsKth(s, Len(s), k, Ensembles!InOrder(s)[k])
         /\ Sorted(Ensembles!InOrder(s))
<1> DEFINE n == Len(s)
           T == 1 .. n
           r == Ensembles!InOrder(s)
<1>1. n \in Nat /\ DOMAIN s = T /\ \A i \in T : s[i] \in Int
  <2>1. n \in Nat /\ s \in [T -> Int]
    BY LenProperties
  <2>2. QED BY <2>1
<1> DEFINE Place(k, x) == /\ Ensembles!Cardinality({i \in DOMAIN s : s[i] < x}) < k
                         /\ k <= Ensembles!Cardinality({i \in DOMAIN s : s[i] <= x})
           X == Ensembles!ToSet(s)
<1>2. r = [k \in DOMAIN s |-> CHOOSE x \in X : Place(k, x)]
  BY DEF Ensembles!InOrder
<1>3. X = {s[i] : i \in T} /\ \A k, x : Place(k, x) <=> IsKth(s, n, k, x)
  BY <1>1, EnsembleLibrary DEF IsKth, Below, NotAbove
<1> HIDE DEF r, Place, X
<1>4. ASSUME NEW k \in T PROVE r[k] \in Int /\ IsKth(s, n, k, r[k])
  <2>1. \E i \in T : IsKth(s, n, k, s[i])
    BY <1>1, KthExists
  <2>2. \E x \in X : Place(k, x)
    BY <1>3, <2>1
  <2>3. r[k] = CHOOSE x \in X : Place(k, x)
    BY <1>1, <1>2
  <2>4. \A x \in X : x \in Int
    BY <1>1, <1>3
  <2>5. r[k] \in X /\ Place(k, r[k])
    <3> HIDE DEF T
    <3>1. QED BY <2>2, <2>3
  <2>6. QED BY <1>3, <2>4, <2>5
<1>5. r \in Seq(Int) /\ Len(r) = n
  <2> DEFINE V == Int
  <2>1. r \in [1 .. n -> V]
    BY <1>1, <1>2, <1>4
  <2> HIDE DEF V
  <2>2. r \in Seq(V) /\ Len(r) = n
    BY <1>1, <2>1, FunctionIsSeq
  <2>3. QED BY <2>2 DEF V
<1>6. ASSUME NEW i \in T, NEW j \in T, i <= j PROVE r[i] <= r[j]
  <2> DEFINE x == r[i]
             y == r[j]
  <2>1. x \in Int /\ y \in Int /\ IsKth(s, n, i, x) /\ IsKth(s, n, j, y)
    BY <1>4
  <2> HIDE DEF x, y
  <2> SUFFICES ASSUME y < x PROVE FALSE
    BY <2>1 DEF x, y
  <2>2. NotAbove(s, n, y) \subseteq Below(s, n, x)
    BY <1>1, <2>1 DEF NotAbove, Below
  <2>3. Cardinality(NotAbove(s, n, y)) <= Cardinality(Below(s, n, x))
    BY <1>1, <2>2, Counts, FS_Subset
  <2>4. /\ Cardinality(NotAbove(s, n, y)) \in Nat
        /\ Cardinality(Below(s, n, x)) \in Nat /\ i \in Int /\ j \in Int
    BY <1>1, Counts
  <2>5. QED BY <1>6, <2>1, <2>3, <2>4 DEF IsKth
<1>7. Sorted(r)
  BY <1>1, <1>2, <1>6 DEF Sorted
<1>8. QED BY <1>4, <1>5, <1>7 DEF r

(* Putting larger scores in order gives larger scores everywhere.              *)
LEMMA OrderGrows ==
  ASSUME NEW f \in Seq(Int), NEW g \in Seq(Int), Len(g) = Len(f), NEW c \in Nat \ {0}
  PROVE  LET s == Ensembles!InOrder(f)
             t == Ensembles!InOrder(g)
         IN  /\ (\A i \in 1 .. Len(f) : f[i] <= c * g[i]) => \A k \in 1 .. Len(f) : s[k] <= c * t[k]
             /\ (\A i \in 1 .. Len(f) : c * g[i] <= f[i]) => \A k \in 1 .. Len(f) : c * t[k] <= s[k]
<1> DEFINE n == Len(f)
           s == Ensembles!InOrder(f)
           t == Ensembles!InOrder(g)
<1>1. /\ n \in Nat /\ Len(s) = n /\ Len(t) = n
      /\ s \in Seq(Int) /\ t \in Seq(Int)
      /\ \A k \in 1 .. n : IsKth(f, n, k, s[k]) /\ IsKth(g, n, k, t[k])
  BY OrderIs, LenProperties
<1> HIDE DEF s, t, n
<1>2. \A k \in 1 .. n : f[k] \in Int /\ g[k] \in Int /\ s[k] \in Int /\ t[k] \in Int
  <2> DEFINE I == Int
  <2> HIDE DEF I
  <2>1. f \in Seq(I) /\ g \in Seq(I) /\ s \in Seq(I) /\ t \in Seq(I) /\ Len(f) = n /\ Len(g) = n
    BY <1>1 DEF I, n
  <2>2. /\ f \in [1 .. n -> I] /\ g \in [1 .. n -> I]
        /\ s \in [1 .. n -> I] /\ t \in [1 .. n -> I]
    BY <1>1, <2>1, LenProperties
  <2>3. QED BY <2>2 DEF I
<1>3. n \in Nat /\ c \in Nat \ {0} /\ Integers(f, n) /\ Integers(g, n)
  BY <1>1, <1>2 DEF Integers
<1>4. ASSUME NEW k \in 1 .. n, NEW x \in Int, NEW y \in Int, IsKth(f, n, k, x), IsKth(g, n, k, y)
      PROVE  /\ UpToTimes(f, n, c, g) => x <= c * y
             /\ FromTimes(f, n, c, g) => c * y <= x
  BY <1>3, <1>4, KthMonotone
<1>5. ASSUME NEW k \in 1 .. n
      PROVE  /\ UpToTimes(f, n, c, g) => s[k] <= c * t[k]
             /\ FromTimes(f, n, c, g) => c * t[k] <= s[k]
  BY <1>1, <1>2, <1>4
<1>6. QED BY <1>5 DEF s, t, n, UpToTimes, FromTimes

(* The quantile of larger scores is no smaller.                                *)
LEMMA QuantileGrows ==
  ASSUME NEW s \in Seq(Int), Len(s) > 0, Sorted(s),
         NEW t \in Seq(Int), Len(t) = Len(s), Sorted(t),
         NEW c \in Nat \ {0}, NEW q \in Fraction, q[1] < q[2]
  PROVE  /\ Quantile(s, q)[1] \in Int /\ Quantile(t, q)[1] \in Int
         /\ Quantile(s, q)[2] = q[2] /\ Quantile(t, q)[2] = q[2]
         /\ (\A k \in 1 .. Len(s) : s[k] <= c * t[k]) => Quantile(s, q)[1] <= c * Quantile(t, q)[1]
         /\ (\A k \in 1 .. Len(s) : c * t[k] <= s[k]) => c * Quantile(t, q)[1] <= Quantile(s, q)[1]
<1>1. PICK N \in Nat, D \in Nat \ {0} : q = <<N, D>> /\ N < D
  BY DEF Fraction
<1> DEFINE n  == Len(s)
           lo == Position(n, q) + 1
           hi == IF lo < n THEN lo + 1 ELSE lo
           R  == Remainder(n, q)
<1>2. n \in Nat /\ lo \in 1 .. n /\ hi \in 1 .. n /\ R \in Nat /\ R < D
  <2>1. Position(n, q) \in Nat /\ R \in Nat /\ R < D /\ lo \in 1 .. n
    BY <1>1, QuantileParts
  <2>2. n \in Nat
    OBVIOUS
  <2> HIDE DEF lo, n, R
  <2>3. QED BY <2>1, <2>2
<1>3. /\ Quantile(s, q) = <<s[lo] * D + R * (s[hi] - s[lo]), D>>
      /\ Quantile(t, q) = <<t[lo] * D + R * (t[hi] - t[lo]), D>>
  BY <1>1 DEF Quantile
<1> HIDE DEF n, lo, hi, R
<1>4. /\ \A k \in 1 .. n : s[k] \in Int /\ t[k] \in Int
  <2> DEFINE V == Int
  <2> HIDE DEF V
  <2>1. s \in Seq(V) /\ t \in Seq(V)
    BY DEF V
  <2>2. s \in [1 .. n -> V] /\ t \in [1 .. n -> V]
    BY <2>1, LenProperties DEF n
  <2>3. QED BY <2>2 DEF V
<1> DEFINE a == s[lo]
           b == s[hi]
           u == t[lo]
           v == t[hi]
<1>5. a \in Int /\ b \in Int /\ u \in Int /\ v \in Int
  BY <1>2, <1>4
<1>6. /\ (\A k \in 1 .. n : s[k] <= c * t[k]) => a <= c * u /\ b <= c * v
      /\ (\A k \in 1 .. n : c * t[k] <= s[k]) => c * u <= a /\ c * v <= b
  BY <1>2
<1> DEFINE A == a * D + R * (b - a)
           U == u * D + R * (v - u)
<1>7. Quantile(s, q)[1] = A /\ Quantile(t, q)[1] = U
  BY <1>3
<1> HIDE DEF a, b, u, v
<1>8. A \in Int /\ U \in Int /\ c * u \in Int /\ c * v \in Int
  <2>1. a * D \in Int /\ u * D \in Int /\ c * u \in Int /\ c * v \in Int
    BY <1>5, TimesInt
  <2>2. b - a \in Int /\ v - u \in Int /\ R \in Int
    BY <1>2, <1>5
  <2>3. R * (b - a) \in Int /\ R * (v - u) \in Int
    BY <2>2, TimesInt
  <2>4. QED BY <2>1, <2>3
<1>9. c * U = (c * u) * D + R * (c * v - c * u)
  <2>1. c * U = c * (u * D) + c * (R * (v - u))
    <3> DEFINE x == u * D
               y == R * (v - u)
    <3>1. x \in Int /\ y \in Int
      <4>1. v - u \in Int /\ R \in Int
        BY <1>2, <1>5
      <4>2. QED BY <1>5, <4>1, TimesInt
    <3> HIDE DEF x, y
    <3>2. c * (x + y) = c * x + c * y
      BY <3>1
    <3>3. QED BY <3>2 DEF x, y
  <2>2. c * (u * D) = (c * u) * D
    BY <1>5
  <2>3. c * (R * (v - u)) = R * (c * v - c * u)
    BY <1>2, <1>5
  <2>4. QED BY <2>1, <2>2, <2>3
<1>10. ASSUME \A k \in 1 .. n : s[k] <= c * t[k] PROVE A <= c * U
  <2>1. a <= c * u /\ b <= c * v
    BY <1>6, <1>10
  <2> DEFINE w == c * u
             z == c * v
  <2>2. w \in Int /\ z \in Int
    BY <1>8
  <2> HIDE DEF w, z
  <2>3. a <= w /\ b <= z
    BY <2>1 DEF w, z
  <2>4. a * D + R * (b - a) <= w * D + R * (z - w)
    BY <1>2, <1>5, <2>2, <2>3, MixMonotone
  <2>5. QED BY <1>9, <2>4 DEF w, z
<1>11. ASSUME \A k \in 1 .. n : c * t[k] <= s[k] PROVE c * U <= A
  <2>1. c * u <= a /\ c * v <= b
    BY <1>6, <1>11
  <2> DEFINE w == c * u
             z == c * v
  <2>2. w \in Int /\ z \in Int
    BY <1>8
  <2> HIDE DEF w, z
  <2>3. w <= a /\ z <= b
    BY <2>1 DEF w, z
  <2>4. w * D + R * (z - w) <= a * D + R * (b - a)
    BY <1>2, <1>5, <2>2, <2>3, MixMonotone
  <2>5. QED BY <1>9, <2>4 DEF w, z
<1> HIDE DEF A, U
<1>12. Quantile(s, q)[2] = q[2] /\ Quantile(t, q)[2] = q[2]
  BY <1>1, <1>3
<1>13. A \in Int /\ U \in Int
  BY <1>8
<1>14. QED BY <1>7, <1>10, <1>11, <1>12, <1>13 DEF n

(* A flow's fused score next to one of its members'.                           *)
LEMMA FusedIs ==
  ASSUME NEW flow \in [Members -> Int], combination \in {"mean", "min", "max"}
  PROVE  /\ Ensembles!Size \in Nat \ {0} /\ Ensembles!Fused(flow) \in Int
         /\ combination = "min" =>
              /\ \E m \in Members : Ensembles!Fused(flow) = Ensembles!Size * flow[m]
              /\ \A m \in Members : Ensembles!Fused(flow) <= Ensembles!Size * flow[m]
         /\ combination = "max" =>
              /\ \E m \in Members : Ensembles!Fused(flow) = Ensembles!Size * flow[m]
              /\ \A m \in Members : Ensembles!Size * flow[m] <= Ensembles!Fused(flow)
         /\ Ensembles!Agree(flow) =>
              \A m \in Members : Ensembles!Fused(flow) = Ensembles!Size * flow[m]
<1> DEFINE K == Ensembles!Size
           V == {flow[m] : m \in Members}
<1>1. IsFiniteSet(Members) /\ Members # {} /\ K = Cardinality(Members)
  BY PartAssumptions, EnsembleLibrary DEF Ensembles!EnsembleAssumption, Ensembles!Size
<1>2. K \in Nat \ {0} /\ K \in Nat /\ K \in Int
  <2>1. Cardinality(Members) \in Nat /\ Cardinality(Members) # 0
    BY <1>1, FS_CardinalityType, FS_EmptySet
  <2>2. QED BY <1>1, <2>1
<1>3. \A m \in Members : flow[m] \in Int
  OBVIOUS
<1>4. /\ \E m \in Members : \A o \in Members : flow[o] <= flow[m]
      /\ \E m \in Members : \A o \in Members : flow[m] <= flow[o]
  BY <1>1, <1>3, Extremes
<1> DEFINE L == Ensembles!Lowest(flow)
           H == Ensembles!Highest(flow)
<1>5. PICK low \in Members : L = flow[low] /\ \A m \in Members : L <= flow[m]
  <2>1. \E x \in V : \A y \in V : x <= y
    BY <1>4
  <2>2. L = CHOOSE x \in V : \A y \in V : x <= y
    BY DEF Ensembles!Lowest, Ensembles!Values
  <2> HIDE DEF V, L
  <2>3. L \in V /\ \A y \in V : L <= y
    BY <2>1, <2>2
  <2>4. QED BY <2>3 DEF V
<1>6. PICK high \in Members : H = flow[high] /\ \A m \in Members : flow[m] <= H
  <2>1. \E x \in V : \A y \in V : x >= y
    BY <1>3, <1>4
  <2>2. H = CHOOSE x \in V : \A y \in V : x >= y
    BY DEF Ensembles!Highest, Ensembles!Values
  <2> HIDE DEF V, H
  <2>3. H \in V /\ \A y \in V : H >= y
    BY <2>1, <2>2
  <2>4. \E high \in Members : H = flow[high]
    BY <2>3 DEF V
  <2>5. ASSUME NEW m \in Members PROVE flow[m] <= H
    <3>1. H >= flow[m]
      BY <2>3 DEF V
    <3>2. H \in Int /\ flow[m] \in Int
      BY <1>3, <2>4
    <3>3. QED BY <3>1, <3>2
  <2>6. QED BY <2>4, <2>5
<1> HIDE DEF L, H
<1>7. L \in Int /\ H \in Int
  BY <1>3, <1>5, <1>6
<1>8. Total(flow, Members) \in Int
  BY <1>1, <1>3, TotalInt
<1>9. /\ combination = "mean" => Ensembles!Fused(flow) = Total(flow, Members)
      /\ combination = "min" => Ensembles!Fused(flow) = K * L
      /\ combination = "max" => Ensembles!Fused(flow) = K * H
  BY EnsembleLibrary DEF Ensembles!Fused, L, H
<1> HIDE DEF K
<1>10. Ensembles!Fused(flow) \in Int
  <2>1. K * L \in Int /\ K * H \in Int
    BY <1>2, <1>7, TimesInt
  <2>2. QED BY <1>8, <1>9, <2>1
<1>11. ASSUME NEW a \in Int, NEW b \in Int, a <= b PROVE K * a <= K * b
  <2>1. a * K <= b * K
    BY <1>2, <1>11, TimesMonotone
  <2>2. QED BY <1>2, <2>1
<1>12. \A m \in Members : K * L <= K * flow[m] /\ K * flow[m] <= K * H
  BY <1>3, <1>5, <1>6, <1>7, <1>11
<1>13. ASSUME Ensembles!Agree(flow), NEW m \in Members
       PROVE  Ensembles!Fused(flow) = K * flow[m]
  <2>1. \A o \in Members : flow[o] = flow[m]
    BY <1>13 DEF Ensembles!Agree
  <2>2. L = flow[m] /\ H = flow[m]
    BY <1>5, <1>6, <2>1
  <2> DEFINE c == flow[m]
  <2>3. c \in Int /\ \A o \in Members : flow[o] = c
    BY <1>3, <2>1
  <2> HIDE DEF c
  <2>4. Total(flow, Members) = Cardinality(Members) * c
    BY <1>1, <2>3, TotalOfSame
  <2>5. Total(flow, Members) = K * flow[m]
    BY <1>1, <2>4 DEF c, K
  <2>6. QED BY <1>9, <2>2, <2>5
<1>14. /\ combination = "min" =>
              /\ Ensembles!Fused(flow) = K * flow[low]
              /\ \A m \in Members : Ensembles!Fused(flow) <= K * flow[m]
       /\ combination = "max" =>
              /\ Ensembles!Fused(flow) = K * flow[high]
              /\ \A m \in Members : K * flow[m] <= Ensembles!Fused(flow)
  BY <1>5, <1>6, <1>9, <1>12
<1>15. QED BY <1>2, <1>10, <1>13, <1>14 DEF K

(* The scores one member, or all of them fused, has for the flows.             *)
FusedScores(v)     == [i \in DOMAIN v |-> Ensembles!Fused(v[i])]

MemberScores(v, m) == [i \in DOMAIN v |-> v[i][m]]

(* They are sequences of as many integers as there are flows.                  *)
LEMMA ScoresAre ==
  ASSUME NEW v \in Seq([Members -> Int]), combination \in {"mean", "min", "max"}
  PROVE  /\ DOMAIN v = 1 .. Len(v) /\ \A i \in 1 .. Len(v) : v[i] \in [Members -> Int]
         /\ FusedScores(v) \in Seq(Int) /\ Len(FusedScores(v)) = Len(v)
         /\ \A m \in Members : /\ MemberScores(v, m) \in Seq(Int)
                               /\ Len(MemberScores(v, m)) = Len(v)
<1> DEFINE F == [Members -> Int]
           I == Int
           n == Len(v)
<1>1. n \in Nat /\ DOMAIN v = 1 .. n /\ \A i \in 1 .. n : v[i] \in F
  <2> HIDE DEF F
  <2>1. v \in Seq(F)
    BY DEF F
  <2>2. n \in Nat /\ v \in [1 .. n -> F]
    BY <2>1, LenProperties
  <2>3. QED BY <2>2
<1> HIDE DEF n
<1>2. \A i \in 1 .. n : Ensembles!Fused(v[i]) \in I
  BY <1>1, FusedIs
<1>3. \A m \in Members, i \in 1 .. n : v[i][m] \in I
  BY <1>1
<1> HIDE DEF I
<1>4. FusedScores(v) \in [1 .. n -> I]
  BY <1>1, <1>2 DEF FusedScores
<1>5. \A m \in Members : MemberScores(v, m) \in [1 .. n -> I]
  BY <1>1, <1>3 DEF MemberScores
<1>6. /\ FusedScores(v) \in Seq(I) /\ Len(FusedScores(v)) = n
      /\ \A m \in Members : MemberScores(v, m) \in Seq(I) /\ Len(MemberScores(v, m)) = n
  BY <1>1, <1>4, <1>5, FunctionIsSeq
<1>7. QED BY <1>1, <1>6 DEF I, n

(* The threshold calibrated on the fused scores next to the one a member would *)
(* have by itself.                                                             *)
OwnThreshold(v, m) == Quantile(Ensembles!InOrder(MemberScores(v, m)), goal)

(* In units of the number of members it is no larger by minimum, no smaller by *)
(* maximum, and the same if they agree.                                        *)
LEMMA ThresholdsAre ==
  ASSUME NEW v \in Seq([Members -> Int]), v # <<>>, combination \in {"mean", "min", "max"},
         goal \in Fraction, goal[1] < goal[2], NEW m \in Members
  PROVE  LET F == Ensembles!ThresholdOf(v)
             O == OwnThreshold(v, m)
         IN  /\ F[1] \in Int /\ O[1] \in Int /\ F[2] = goal[2] /\ O[2] = goal[2]
             /\ combination = "min" => F[1] <= Ensembles!Size * O[1]
             /\ combination = "max" => Ensembles!Size * O[1] <= F[1]
             /\ (\A j \in DOMAIN v : Ensembles!Agree(v[j])) => F[1] = Ensembles!Size * O[1]
<1> DEFINE F == Ensembles!ThresholdOf(v)
           O == OwnThreshold(v, m)
           K == Ensembles!Size
           f == FusedScores(v)
           g == MemberScores(v, m)
           s == Ensembles!InOrder(f)
           t == Ensembles!InOrder(g)
           n == Len(v)
<1>1. n \in Nat /\ n > 0 /\ K \in Nat \ {0}
  <2>1. n \in Nat /\ n > 0
    <3> DEFINE V == [Members -> Int]
    <3>1. v \in Seq(V)
      OBVIOUS
    <3> HIDE DEF V
    <3>2. QED BY <3>1, LenProperties, EmptySeq
  <2>2. K \in Nat \ {0}
    <3>1. \A i \in 1 .. n : v[i] \in [Members -> Int]
      BY ScoresAre
    <3>2. 1 \in 1 .. n
      BY <2>1
    <3>3. v[1] \in [Members -> Int]
      BY <3>1, <3>2
    <3>4. QED BY <3>3, FusedIs
  <2>3. QED BY <2>1, <2>2
<1>2. /\ DOMAIN v = 1 .. n /\ \A i \in 1 .. n : v[i] \in [Members -> Int]
      /\ f \in Seq(Int) /\ Len(f) = n /\ g \in Seq(Int) /\ Len(g) = n
  BY ScoresAre
<1>3. \A i \in 1 .. n : f[i] = Ensembles!Fused(v[i]) /\ g[i] = v[i][m]
  BY <1>2 DEF FusedScores, MemberScores
<1>4. F = Quantile(s, goal)
  BY EnsembleLibrary DEF Ensembles!ThresholdOf, FusedScores
<1>5. O = Quantile(t, goal)
  BY DEF OwnThreshold
<1> HIDE DEF F, O, K, f, g, n
<1>6. /\ s \in Seq(Int) /\ Len(s) = n /\ Sorted(s)
      /\ t \in Seq(Int) /\ Len(t) = n /\ Sorted(t)
      /\ (\A i \in 1 .. n : f[i] <= K * g[i]) => \A k \in 1 .. n : s[k] <= K * t[k]
      /\ (\A i \in 1 .. n : K * g[i] <= f[i]) => \A k \in 1 .. n : K * t[k] <= s[k]
  BY <1>1, <1>2, OrderIs, OrderGrows
<1> HIDE DEF s, t
<1>7. /\ Quantile(s, goal)[1] \in Int /\ Quantile(t, goal)[1] \in Int
      /\ Quantile(s, goal)[2] = goal[2] /\ Quantile(t, goal)[2] = goal[2]
      /\ (\A k \in 1 .. n : s[k] <= K * t[k]) => Quantile(s, goal)[1] <= K * Quantile(t, goal)[1]
      /\ (\A k \in 1 .. n : K * t[k] <= s[k]) => K * Quantile(t, goal)[1] <= Quantile(s, goal)[1]
  BY <1>1, <1>6, QuantileGrows
<1>8. ASSUME \A i \in 1 .. n : f[i] <= K * g[i] PROVE F[1] <= K * O[1]
  BY <1>4, <1>5, <1>6, <1>7, <1>8
<1>9. ASSUME \A i \in 1 .. n : K * g[i] <= f[i] PROVE K * O[1] <= F[1]
  BY <1>4, <1>5, <1>6, <1>7, <1>9
<1>10. ASSUME combination = "min" PROVE F[1] <= K * O[1]
  <2>1. ASSUME NEW i \in 1 .. n PROVE f[i] <= K * g[i]
    <3>1. v[i] \in [Members -> Int]
      BY <1>2
    <3>2. Ensembles!Fused(v[i]) <= K * v[i][m]
      BY <1>10, <3>1, FusedIs DEF K
    <3>3. QED BY <1>3, <3>2
  <2>2. QED BY <1>8, <2>1
<1>11. ASSUME combination = "max" PROVE K * O[1] <= F[1]
  <2>1. ASSUME NEW i \in 1 .. n PROVE K * g[i] <= f[i]
    <3>1. v[i] \in [Members -> Int]
      BY <1>2
    <3>2. K * v[i][m] <= Ensembles!Fused(v[i])
      BY <1>11, <3>1, FusedIs DEF K
    <3>3. QED BY <1>3, <3>2
  <2>2. QED BY <1>9, <2>1
<1>12. F[1] \in Int /\ O[1] \in Int /\ K * O[1] \in Int /\ F[2] = goal[2] /\ O[2] = goal[2]
  BY <1>1, <1>4, <1>5, <1>7, TimesInt
<1>13. ASSUME \A j \in DOMAIN v : Ensembles!Agree(v[j]) PROVE F[1] = K * O[1]
  <2>1. \A i \in 1 .. n : f[i] = K * g[i]
    BY <1>2, <1>3, <1>13, FusedIs DEF K
  <2>2. \A i \in 1 .. n : g[i] \in Int /\ K * g[i] \in Int
    BY <1>1, <1>2, <1>3, TimesInt
  <2>3. F[1] <= K * O[1] /\ K * O[1] <= F[1]
    BY <1>8, <1>9, <2>1, <2>2
  <2>4. QED BY <1>12, <2>3
<1>14. QED BY <1>10, <1>11, <1>12, <1>13 DEF F, O, K

(* The verdict on a flow next to the one a member alone would give.            *)
LEMMA VerdictsAre ==
  ASSUME NEW v \in Seq([Members -> Int]), v # <<>>, combination \in {"mean", "min", "max"},
         goal \in Fraction, goal[1] < goal[2], NEW flow \in [Members -> Int]
  PROVE  LET anomaly  == IsAnomaly(Ensembles!Fused(flow), Ensembles!ThresholdOf(v))
             alone(m) == IsAnomaly(flow[m], OwnThreshold(v, m))
         IN  /\ combination = "min" /\ anomaly => \E m \in Members : alone(m)
             /\ combination = "max" /\ (\A m \in Members : alone(m)) => anomaly
             /\ (Ensembles!Agree(flow) /\ \A j \in DOMAIN v : Ensembles!Agree(v[j]))
                  => \A m \in Members : anomaly <=> alone(m)
<1> DEFINE F == Ensembles!ThresholdOf(v)
           K == Ensembles!Size
           u == Ensembles!Fused(flow)
           D == goal[2]
           O(m) == OwnThreshold(v, m)[1]
<1>1. K \in Nat \ {0} /\ u \in Int /\ D \in Nat
  BY FusedIs DEF Fraction
<1>2. \A m \in Members :
        /\ F[1] \in Int /\ O(m) \in Int /\ F[2] = D
        /\ IsAnomaly(u, F) <=> u * D < F[1]
        /\ IsAnomaly(flow[m], OwnThreshold(v, m)) <=> flow[m] * D < O(m)
  BY ThresholdsAre DEF IsAnomaly
<1>3. /\ combination = "min" => \A m \in Members : F[1] <= K * O(m)
      /\ combination = "max" => \A m \in Members : K * O(m) <= F[1]
      /\ (\A j \in DOMAIN v : Ensembles!Agree(v[j])) => \A m \in Members : F[1] = K * O(m)
  BY ThresholdsAre
<1>4. /\ combination = "min" => \E m \in Members : u = K * flow[m]
      /\ combination = "max" => \E m \in Members : u = K * flow[m]
      /\ Ensembles!Agree(flow) => \A m \in Members : u = K * flow[m]
  BY FusedIs
<1> HIDE DEF F, K, u, D, O
<1>5. ASSUME NEW m \in Members, u = K * flow[m]
      PROVE  /\ u * D \in Int /\ u * D = K * (flow[m] * D)
             /\ K * (flow[m] * D) \in Int /\ K * O(m) \in Int /\ F[1] \in Int
             /\ K * (flow[m] * D) < K * O(m) <=> flow[m] * D < O(m)
  <2> DEFINE x == flow[m]
  <2>1. x \in Int
    OBVIOUS
  <2>2. O(m) \in Int /\ F[1] \in Int
    BY <1>2
  <2> DEFINE o == O(m)
  <2> HIDE DEF x, o
  <2>3. u * D = K * (x * D)
    BY <1>1, <1>5, <2>1 DEF x
  <2>4. x * D \in Int
    BY <1>1, <2>1, TimesInt
  <2> DEFINE y == x * D
  <2> HIDE DEF y
  <2>5. K * y \in Int /\ K * o \in Int /\ (K * y < K * o <=> y < o)
    BY <1>1, <2>2, <2>4, Scaled DEF o, y
  <2>6. QED BY <2>2, <2>3, <2>5 DEF x, y, o
<1>6. ASSUME combination = "min", IsAnomaly(u, F)
      PROVE  \E m \in Members : IsAnomaly(flow[m], OwnThreshold(v, m))
  <2>1. PICK m \in Members : u = K * flow[m]
    BY <1>4, <1>6
  <2>2. u * D < F[1] /\ F[1] <= K * O(m)
    BY <1>2, <1>3, <1>6
  <2>3. flow[m] * D < O(m)
    BY <1>5, <2>1, <2>2
  <2>4. QED BY <1>2, <2>3
<1>7. ASSUME combination = "max", \A m \in Members : IsAnomaly(flow[m], OwnThreshold(v, m))
      PROVE  IsAnomaly(u, F)
  <2>1. PICK m \in Members : u = K * flow[m]
    BY <1>4, <1>7
  <2>2. flow[m] * D < O(m) /\ K * O(m) <= F[1]
    BY <1>2, <1>3, <1>7
  <2>3. u * D < F[1]
    BY <1>5, <2>1, <2>2
  <2>4. QED BY <1>2, <2>3
<1>8. ASSUME Ensembles!Agree(flow), \A j \in DOMAIN v : Ensembles!Agree(v[j]), NEW m \in Members
      PROVE  IsAnomaly(u, F) <=> IsAnomaly(flow[m], OwnThreshold(v, m))
  <2>1. u = K * flow[m] /\ F[1] = K * O(m)
    BY <1>3, <1>4, <1>8
  <2>2. u * D < F[1] <=> flow[m] * D < O(m)
    BY <1>5, <2>1
  <2>3. QED BY <1>2, <2>2
<1>9. QED BY <1>6, <1>7, <1>8 DEF F, u

(* The threshold in force is the one of the flows calibrated on, and the last  *)
(* answer was given with it.                                                   *)
EnsembleInv ==
  /\ combination \in Combinations /\ goal \in Goals
  /\ threshold # NotCalibrated =>
       validation \in Validations /\ threshold = Ensembles!ThresholdOf(validation)
  /\ asked # <<>> =>
       /\ threshold # NotCalibrated
       /\ \E flow \in Questions :
            asked = <<[flow |-> flow,
                       anomaly |-> Ensembles!IsAnomaly(Ensembles!Fused(flow), threshold)]>>

(* Calibrating and asking keep the invariant.                                  *)
LEMMA EnsembleStep == EnsembleInv /\ [Ensembles!Next]_ensembleVars => EnsembleInv'
<1> SUFFICES ASSUME EnsembleInv, [Ensembles!Next]_ensembleVars PROVE EnsembleInv'
  OBVIOUS
<1>1. ASSUME NEW flows \in Validations, Ensembles!Calibrate(flows) PROVE EnsembleInv'
  <2>1. /\ validation' = flows /\ threshold' = Ensembles!ThresholdOf(flows)
        /\ asked' = <<>> /\ combination' = combination /\ goal' = goal
    BY <1>1 DEF Ensembles!Calibrate
  <2>2. Ensembles!ThresholdOf(validation)' = Ensembles!ThresholdOf(flows)
    BY <2>1 DEF Ensembles!ThresholdOf, Ensembles!Fused
  <2>3. QED BY <2>1, <2>2 DEF EnsembleInv
<1>2. ASSUME NEW flow \in Questions, Ensembles!Ask(flow) PROVE EnsembleInv'
  <2>1. /\ threshold # NotCalibrated
        /\ asked' = <<[flow |-> flow,
                       anomaly |-> Ensembles!IsAnomaly(Ensembles!Fused(flow), threshold)]>>
        /\ UNCHANGED <<combination, goal, validation, threshold>>
    BY <1>2 DEF Ensembles!Ask
  <2>2. /\ Ensembles!ThresholdOf(validation)' = Ensembles!ThresholdOf(validation)
        /\ \A x : Ensembles!Fused(x)' = Ensembles!Fused(x)
    BY <2>1 DEF Ensembles!ThresholdOf, Ensembles!Fused
  <2>3. QED BY <2>1, <2>2 DEF EnsembleInv, Ensembles!IsAnomaly
<1>3. CASE UNCHANGED ensembleVars
  <2>1. UNCHANGED <<combination, goal, validation, threshold, asked>>
    BY <1>3 DEF ensembleVars
  <2>2. /\ Ensembles!ThresholdOf(validation)' = Ensembles!ThresholdOf(validation)
        /\ \A x : Ensembles!Fused(x)' = Ensembles!Fused(x)
    BY <2>1 DEF Ensembles!ThresholdOf, Ensembles!Fused
  <2>3. QED BY <2>1, <2>2 DEF EnsembleInv, Ensembles!IsAnomaly
<1>4. QED BY <1>1, <1>2, <1>3 DEF Ensembles!Next

(* So it always holds.                                                         *)
LEMMA EnsembleInvariant == DetectorSpec => []EnsembleInv
<1>1. DetectorInit => EnsembleInv
  BY DEF DetectorInit, Ensembles!Init, EnsembleInv
<1>2. EnsembleInv /\ [DetectorNext]_detectorVars => EnsembleInv'
  <2>1. [DetectorNext]_detectorVars => [Ensembles!Next]_ensembleVars
    BY DEF DetectorNext, Training, Scoring, Fit, Fuse, detectorVars
  <2>2. QED BY <2>1, EnsembleStep
<1>3. QED BY <1>1, <1>2, PTL DEF DetectorSpec, detectorVars

(* ensemble_hmm.py:10 for every number of members, every target and all        *)
(* scores: by minimum only what some member alone would block, by maximum      *)
(* whatever all of them alone would, and members that agree decide as one.     *)
THEOREM EnsembleFollows == DetectorSpec => []EnsembleFollowsMembers
<1>1. EnsembleInv => EnsembleFollowsMembers
  <2> SUFFICES ASSUME EnsembleInv PROVE Ensembles!FollowsMembers
    BY DEF EnsembleFollowsMembers
  <2>1. CASE asked = <<>>
    <3>1. DOMAIN asked = {}
      BY <2>1
    <3>2. QED BY <3>1 DEF Ensembles!FollowsMembers
  <2>2. CASE asked # <<>>
    <3>1. PICK flow \in Questions :
            asked = <<[flow |-> flow,
                       anomaly |-> Ensembles!IsAnomaly(Ensembles!Fused(flow), threshold)]>>
      BY <2>2 DEF EnsembleInv
    <3>2. validation \in Validations /\ threshold = Ensembles!ThresholdOf(validation)
      BY <2>2 DEF EnsembleInv
    <3>3. /\ validation \in Seq([Members -> Int]) /\ validation # <<>>
          /\ combination \in {"mean", "min", "max"} /\ goal \in Fraction /\ goal[1] < goal[2]
          /\ flow \in [Members -> Int]
      BY <3>2, PartAssumptions
      DEF EnsembleInv, Ensembles!EnsembleAssumption, Ensembles!Fraction, Fraction
    <3> DEFINE anomaly  == IsAnomaly(Ensembles!Fused(flow), threshold)
               alone(m) == IsAnomaly(flow[m], OwnThreshold(validation, m))
    <3>4. /\ combination = "min" /\ anomaly => \E m \in Members : alone(m)
          /\ combination = "max" /\ (\A m \in Members : alone(m)) => anomaly
          /\ (Ensembles!Agree(flow) /\ \A j \in DOMAIN validation : Ensembles!Agree(validation[j]))
               => \A m \in Members : anomaly <=> alone(m)
      BY <3>2, <3>3, VerdictsAre
    <3>5. \A m \in Members : Ensembles!Alone(m, flow) <=> alone(m)
      <4>1. ASSUME NEW m PROVE Ensembles!OwnThreshold(m) = OwnThreshold(validation, m)
        BY EnsembleLibrary DEF Ensembles!OwnThreshold, OwnThreshold, MemberScores
      <4>2. QED BY <4>1 DEF Ensembles!Alone, Ensembles!IsAnomaly, IsAnomaly
    <3>6. Ensembles!IsAnomaly(Ensembles!Fused(flow), threshold) <=> anomaly
      BY DEF Ensembles!IsAnomaly, IsAnomaly
    <3>7. DOMAIN asked = {1} /\ asked[1].flow = flow /\ (asked[1].anomaly <=> anomaly)
      BY <3>1, <3>6
    <3> DEFINE blocking == {m \in Members : Ensembles!Alone(m, flow)}
    <3>8. /\ blocking # {} <=> \E m \in Members : alone(m)
          /\ blocking = Members <=> \A m \in Members : alone(m)
          /\ \A m \in Members : m \in blocking <=> alone(m)
      BY <3>5
    <3> HIDE DEF anomaly, alone, blocking
    <3>9. QED BY <3>4, <3>7, <3>8 DEF Ensembles!FollowsMembers, blocking
  <2>3. QED BY <2>1, <2>2
<1>2. QED BY <1>1, EnsembleInvariant, PTL

------------------------------------------------------------------------------
(* The score of one model.                                                     *)

(* An instance has the library's operators under names of its own.             *)
LEMMA OneClassLibrary ==
  /\ \A f : OneClass!SumOver(f) = Total(f, DOMAIN f)
  /\ \A s : OneClass!ToSet(s) = {s[i] : i \in DOMAIN s}
  /\ IsFiniteSet(HiddenStates)
<1>1. ASSUME NEW f PROVE OneClass!SumOver(f) = Total(f, DOMAIN f)
  BY DEF OneClass!SumOver, Total, MapThenSumSet, MapThenFoldSet,
         OneClass!MapThenSumSet, OneClass!MapThenFoldSet
<1>2. ASSUME NEW s PROVE OneClass!ToSet(s) = {s[i] : i \in DOMAIN s}
  BY DEF OneClass!ToSet
<1>3. IsFiniteSet(HiddenStates)
  BY PartAssumptions DEF OneClass!ScoreAssumption, OneClass!IsFiniteSet, IsFiniteSet
<1>4. QED BY <1>1, <1>2, <1>3

(* Weights of a fitted model are natural numbers.                              *)
Typed(m) == /\ m.start \in [HiddenStates -> Nat]
            /\ m.trans \in [HiddenStates -> [HiddenStates -> Nat]]
            /\ m.emit \in [HiddenStates -> [OneClass!Alphabet -> Nat]]

(* The weights of the states with a symbol more, and along a sequence.         *)
Enter(v, a) == [q \in HiddenStates |-> model.emit[q][a] * v[q]]
Onward(v)   == Mixed(v, model.trans, HiddenStates, HiddenStates)

Forward(u, s, n) == /\ u[1] = Enter(model.start, s[1])
                    /\ \A i \in 2 .. n : u[i] = Enter(Onward(u[i - 1]), s[i])

(* The forward algorithm's vectors; the weight is the sum of the last.         *)
LEMMA WeightIs ==
  ASSUME Typed(model), NEW s \in Seq(OneClass!Alphabet), s # <<>>
  PROVE  \E u : /\ \A i \in 1 .. Len(s) : u[i] \in [HiddenStates -> Nat]
                /\ Forward(u, s, Len(s))
                /\ OneClass!Weight(s) = Total(u[Len(s)], HiddenStates)
<1> DEFINE n == Len(s)
           V == [HiddenStates -> Nat]
           Next1(i, v) ==
             [q \in HiddenStates |->
                model.emit[q][s[i]] *
                  IF i = 1 THEN model.start[q]
                  ELSE OneClass!SumOver([p \in HiddenStates |-> v[p] * model.trans[p][q]])]
           IsAlpha(h) == h = [i \in 1 .. n |-> Next1(i, h[i - 1])]
<1>1. n \in Nat /\ n > 0 /\ \A i \in 1 .. n : s[i] \in OneClass!Alphabet
  <2> DEFINE A == OneClass!Alphabet
  <2> HIDE DEF A
  <2>1. s \in Seq(A) /\ s # <<>>
    BY DEF A
  <2>2. n \in Nat /\ s \in [1 .. n -> A]
    BY <2>1, LenProperties
  <2>3. n # 0
    BY <2>1, EmptySeq
  <2>4. QED BY <2>2, <2>3 DEF A
<1> HIDE DEF n
<1>2. ASSUME NEW v \in V, NEW q \in HiddenStates
      PROVE  OneClass!SumOver([p \in HiddenStates |-> v[p] * model.trans[p][q]]) \in Nat
  <2> DEFINE f == [p \in HiddenStates |-> v[p] * model.trans[p][q]]
  <2>1. \A p \in HiddenStates : f[p] \in Nat
    <3> SUFFICES ASSUME NEW p \in HiddenStates PROVE v[p] * model.trans[p][q] \in Nat
      OBVIOUS
    <3>1. v[p] \in Nat /\ model.trans[p][q] \in Nat
      BY DEF Typed
    <3>2. QED BY <3>1
  <2>2. DOMAIN f = HiddenStates
    OBVIOUS
  <2> HIDE DEF f
  <2>3. QED BY <2>1, <2>2, OneClassLibrary, SumType DEF f
<1>3. ASSUME NEW i \in 1 .. n, NEW v, i # 1 => v \in V PROVE Next1(i, v) \in V
  <2> SUFFICES ASSUME NEW q \in HiddenStates
               PROVE  model.emit[q][s[i]] *
                        (IF i = 1 THEN model.start[q]
                         ELSE OneClass!SumOver([p \in HiddenStates |-> v[p] * model.trans[p][q]]))
                      \in Nat
    OBVIOUS
  <2> DEFINE e == model.emit[q][s[i]]
             w == IF i = 1 THEN model.start[q]
                  ELSE OneClass!SumOver([p \in HiddenStates |-> v[p] * model.trans[p][q]])
  <2>1. e \in Nat
    BY <1>1 DEF Typed
  <2>2. w \in Nat
    BY <1>2, <1>3 DEF Typed
  <2> HIDE DEF e, w
  <2>3. e * w \in Nat
    BY <2>1, <2>2
  <2>4. QED BY <2>3 DEF e, w
<1> DEFINE alpha1 == CHOOSE h : IsAlpha(h)
<1>4. OneClass!Weight(s) = OneClass!SumOver(alpha1[n])
  BY DEF OneClass!Weight, n
<1> HIDE DEF V, Next1
<1>5. \E h : IsAlpha(h)
  <2> DEFINE g == [iv \in (1 .. n) \X V |-> Next1(iv[1], iv[2])]
  <2>1. \A i \in 1 .. n, v \in V : g[<<i, v>>] = Next1(i, v) /\ g[<<i, v>>] \in V
    BY <1>3
  <2> HIDE DEF g
  <2>2. PICK a : a \in V
    <3>1. [q \in HiddenStates |-> 0] \in V
      BY DEF V
    <3>2. QED BY <3>1
  <2>3. PICK f : f \in [0 .. n -> V] /\ Follows(f, n, a, g)
    BY <1>1, <2>1, <2>2, Recursion
  <2> DEFINE h == [i \in 1 .. n |-> f[i]]
  <2>4. \A i \in 1 .. n : f[i] = Next1(i, f[i - 1])
    <3> SUFFICES ASSUME NEW i \in 1 .. n PROVE f[i] = Next1(i, f[i - 1])
      OBVIOUS
    <3>1. f[i - 1] \in V /\ f[i] = g[<<i, f[i - 1]>>]
      BY <1>1, <2>3 DEF Follows
    <3>2. QED BY <2>1, <3>1
  <2>5. \A i \in 1 .. n : Next1(i, f[i - 1]) = Next1(i, h[i - 1])
    <3> SUFFICES ASSUME NEW i \in 1 .. n PROVE Next1(i, f[i - 1]) = Next1(i, h[i - 1])
      OBVIOUS
    <3>1. CASE i = 1
      BY <3>1 DEF Next1
    <3>2. CASE i # 1
      <4>1. i - 1 \in 1 .. n
        BY <1>1, <3>2
      <4>2. h[i - 1] = f[i - 1]
        BY <4>1
      <4>3. QED BY <4>2
    <3>3. QED BY <3>1, <3>2
  <2>6. h = [i \in 1 .. n |-> Next1(i, h[i - 1])]
    BY <2>4, <2>5
  <2>7. QED BY <2>6
<1>6. IsAlpha(alpha1)
  BY <1>5
<1> HIDE DEF alpha1
<1>7. \A i \in 1 .. n : alpha1[i] = Next1(i, alpha1[i - 1])
  BY <1>6
<1> DEFINE N == {i \in Nat : i + 1 <= n => alpha1[i + 1] \in V}
<1>8. N \in SUBSET Nat /\ 0 \in N
  <2>1. 1 \in 1 .. n /\ 0 + 1 = 1
    BY <1>1
  <2>2. Next1(1, alpha1[1 - 1]) \in V
    BY <1>3, <2>1
  <2>3. alpha1[1] \in V
    BY <1>7, <2>1, <2>2
  <2>4. QED BY <2>3
<1>9. ASSUME NEW i \in N PROVE i + 1 \in N
  <2> SUFFICES ASSUME (i + 1) + 1 <= n PROVE alpha1[(i + 1) + 1] \in V
    OBVIOUS
  <2> DEFINE j == (i + 1) + 1
  <2>1. j \in 1 .. n /\ j - 1 = i + 1 /\ i + 1 <= n
    BY <1>1
  <2>2. alpha1[j - 1] \in V
    BY <2>1
  <2> HIDE DEF j
  <2>3. Next1(j, alpha1[j - 1]) \in V
    BY <1>3, <2>1, <2>2
  <2>4. alpha1[j] \in V
    BY <1>7, <2>1, <2>3
  <2>5. QED BY <2>4 DEF j
<1> HIDE DEF N
<1>10. N = Nat
  BY <1>8, <1>9, NatSetInduction
<1>11. ASSUME NEW i \in 1 .. n PROVE alpha1[i] \in [HiddenStates -> Nat]
  <2>1. i - 1 \in N /\ (i - 1) + 1 = i
    BY <1>1, <1>10
  <2>2. QED BY <1>1, <2>1 DEF N, V
<1>12. OneClass!Weight(s) = Total(alpha1[n], HiddenStates)
  <2> DEFINE f == alpha1[n]
  <2>1. DOMAIN f = HiddenStates
    BY <1>1, <1>11
  <2> HIDE DEF f
  <2>2. OneClass!SumOver(f) = Total(f, HiddenStates)
    BY <2>1, OneClassLibrary
  <2>3. QED BY <1>4, <2>2 DEF f
<1>13. Forward(alpha1, s, n)
  <2>1. ASSUME NEW v
        PROVE  /\ Next1(1, v) = Enter(model.start, s[1])
               /\ \A i \in 2 .. n : Next1(i, v) = Enter(Onward(v), s[i])
    <3>1. Next1(1, v) = Enter(model.start, s[1])
      BY DEF Next1, Enter
    <3>2. ASSUME NEW i \in 2 .. n PROVE Next1(i, v) = Enter(Onward(v), s[i])
      <4> DEFINE F(q) == [p \in HiddenStates |-> v[p] * model.trans[p][q]]
      <4>1. Next1(i, v) = [q \in HiddenStates |-> model.emit[q][s[i]] * OneClass!SumOver(F(q))]
        BY DEF Next1
      <4>2. ASSUME NEW q \in HiddenStates
            PROVE  OneClass!SumOver(F(q)) = Onward(v)[q]
        <5> DEFINE f == F(q)
        <5>1. DOMAIN f = HiddenStates
          OBVIOUS
        <5>2. Onward(v)[q] = Total(f, HiddenStates)
          BY DEF Onward, Mixed
        <5> HIDE DEF F, f
        <5>3. OneClass!SumOver(f) = Total(f, HiddenStates)
          BY <5>1, OneClassLibrary
        <5>4. QED BY <5>2, <5>3 DEF f
      <4> HIDE DEF F
      <4>3. QED BY <4>1, <4>2 DEF Enter
    <3>3. QED BY <3>1, <3>2
  <2>2. 1 \in 1 .. n /\ \A i \in 2 .. n : i \in 1 .. n
    BY <1>1
  <2>3. alpha1[1] = Enter(model.start, s[1])
    BY <1>7, <2>1, <2>2
  <2>4. ASSUME NEW i \in 2 .. n PROVE alpha1[i] = Enter(Onward(alpha1[i - 1]), s[i])
    BY <1>7, <2>1, <2>2
  <2>5. QED BY <2>3, <2>4 DEF Forward
<1>14. QED BY <1>11, <1>12, <1>13 DEF n

(* So the weight of a sequence of symbols is a natural number.                 *)
LEMMA WeightType ==
  ASSUME Typed(model), NEW s \in Seq(OneClass!Alphabet), s # <<>>
  PROVE  OneClass!Weight(s) \in Nat
<1> DEFINE n == Len(s)
<1>1. PICK u : /\ \A i \in 1 .. n : u[i] \in [HiddenStates -> Nat]
               /\ OneClass!Weight(s) = Total(u[n], HiddenStates)
  BY WeightIs
<1>2. n \in 1 .. n
  <2> DEFINE A == OneClass!Alphabet
  <2> HIDE DEF A
  <2>1. s \in Seq(A) /\ s # <<>>
    BY DEF A
  <2>2. QED BY <2>1, EmptySeq, LenProperties
<1> DEFINE f == u[n]
<1>3. \A q \in HiddenStates : f[q] \in Nat
  BY <1>1, <1>2
<1> HIDE DEF f, n
<1>4. QED BY <1>1, <1>3, OneClassLibrary, SumType DEF f

(* The windows of a sequence that fills one are as long as a window.           *)
LEMMA CutIs ==
  ASSUME window \in Nat \ {0}, NEW S, NEW s \in Seq(S), Len(s) >= window
  PROVE  LET w == OneClass!SlidingWindows(s)
         IN  /\ Len(w) \in Nat \ {0} /\ DOMAIN w = 1 .. Len(w)
             /\ \A i \in 1 .. Len(w) : w[i] \in Seq(S) /\ Len(w[i]) = window
             /\ Len(s) = window => w = <<s>>
<1> DEFINE w == OneClass!SlidingWindows(s)
           n == Len(s) - window + 1
<1>1. window \in Nat /\ Len(s) \in Nat /\ n \in Nat \ {0}
  BY LenProperties
<1>2. CASE Len(s) = window
  <2>1. w = <<s>>
    BY <1>1, <1>2 DEF OneClass!SlidingWindows
  <2>2. Len(w) = 1 /\ DOMAIN w = 1 .. 1 /\ w[1] = s
    BY <2>1
  <2>3. \A i \in 1 .. Len(w) : w[i] = s
    BY <2>2
  <2> HIDE DEF w
  <2>4. /\ Len(w) \in Nat \ {0} /\ DOMAIN w = 1 .. Len(w)
        /\ \A i \in 1 .. Len(w) : w[i] \in Seq(S) /\ Len(w[i]) = window
    BY <1>2, <2>2, <2>3
  <2>5. QED BY <2>1, <2>4 DEF w
<1>3. CASE Len(s) # window
  <2>1. w = [i \in 1 .. n |-> SubSeq(s, i, i + window - 1)]
    BY <1>1, <1>3 DEF OneClass!SlidingWindows
  <2> HIDE DEF w
  <2>2. ASSUME NEW i \in 1 .. n PROVE w[i] \in Seq(S) /\ Len(w[i]) = window
    <3> DEFINE j == i + window - 1
    <3>1. i \in 1 .. (Len(s) + 1) /\ j \in i - 1 .. Len(s) /\ i <= j
      BY <1>1
    <3>2. i \in 1 .. Len(s) /\ j \in 1 .. Len(s) /\ j - i + 1 = window
      BY <1>1, <3>1
    <3> HIDE DEF j
    <3>3. SubSeq(s, i, j) \in Seq(S) /\ Len(SubSeq(s, i, j)) = j - i + 1
      BY <3>1, <3>2, SubSeqProperties
    <3>4. QED BY <2>1, <3>2, <3>3 DEF j
  <2>3. w \in [1 .. n -> Seq(S)]
    BY <2>1, <2>2
  <2> DEFINE T == Seq(S)
  <2>4. w \in [1 .. n -> T] /\ n \in Nat
    BY <1>1, <2>3
  <2> HIDE DEF T, n
  <2>5. Len(w) = n /\ DOMAIN w = 1 .. n
    BY <2>4, FunctionIsSeq
  <2>6. n \in Nat \ {0}
    BY <1>1 DEF n
  <2>7. QED BY <1>3, <2>2, <2>5, <2>6 DEF w
<1>4. QED BY <1>2, <1>3

(* The score of a sequence that fills a window.                                *)
LEMMA ScoreIs ==
  ASSUME Typed(model), window \in Nat \ {0}, NEW s \in Seq(OneClass!Alphabet), Len(s) >= window
  PROVE  LET w == OneClass!SlidingWindows(s)
             e == [i \in DOMAIN w |-> OneClass!Weight(w[i])]
             z == OneClass!ScoreOf(s)
         IN  /\ z.sequence = s /\ z.norm = window /\ z.count = Len(w)
             /\ z.total = Total(e, DOMAIN w)
             /\ \A i \in DOMAIN w : e[i] \in Nat
<1> DEFINE w == OneClass!SlidingWindows(s)
           e == [i \in DOMAIN w |-> OneClass!Weight(w[i])]
           z == OneClass!ScoreOf(s)
           A == OneClass!Alphabet
<1>1. s # <<>> /\ window # 0
  BY EmptySeq
<1>2. z = [sequence |-> s, total |-> OneClass!SumOver(e), count |-> OneClass!Count(s),
           norm |-> OneClass!Norm(s)]
  BY <1>1 DEF OneClass!ScoreOf
<1>3. OneClass!Norm(s) = window /\ OneClass!Count(s) = Len(w)
  BY <1>1 DEF OneClass!Norm, OneClass!Count
<1>4. OneClass!SumOver(e) = Total(e, DOMAIN w)
  <2>1. DOMAIN e = DOMAIN w
    OBVIOUS
  <2> HIDE DEF e, w
  <2>2. QED BY <2>1, OneClassLibrary
<1>5. ASSUME NEW i \in DOMAIN w PROVE OneClass!Weight(w[i]) \in Nat
  <2> HIDE DEF A
  <2>1. s \in Seq(A)
    BY DEF A
  <2>2. w[i] \in Seq(A) /\ Len(w[i]) = window
    BY <2>1, CutIs
  <2> HIDE DEF w
  <2>3. w[i] # <<>>
    BY <2>2, <1>1, EmptySeq
  <2>4. QED BY <2>2, <2>3, WeightType DEF A
<1> HIDE DEF z
<1>6. QED BY <1>2, <1>3, <1>4, <1>5 DEF z

(* A model appears at the end of fit() and is never replaced, so what was      *)
(* scored was scored by the model in place.                                    *)
OneClassInv ==
  /\ window \in Windows
  /\ fitting # "idle" => model = OneClass!NoHmm
  /\ fitting = "learned" =>
       /\ learned.start \in [HiddenStates -> Nat]
       /\ learned.trans \in [HiddenStates -> [HiddenStates -> Nat]]
       /\ learned.emit \in [HiddenStates -> [OneClass!Alphabet -> Nat]]
       /\ learned = [start |-> learned.start, trans |-> learned.trans, emit |-> learned.emit]
  /\ model # OneClass!NoHmm => Typed(model)
  /\ scored # OneClass!Empty =>
       /\ model # OneClass!NoHmm
       /\ \E s \in Asked : scored = OneClass!ScoreOf(s)

(* A score depends on the model and the window only.                           *)
LEMMA SameModelSameScore ==
  ASSUME UNCHANGED <<model, window>>, NEW s
  PROVE  OneClass!ScoreOf(s)' = OneClass!ScoreOf(s)
<1>1. \A w : OneClass!Weight(w)' = OneClass!Weight(w)
  <2>1. ASSUME NEW w PROVE OneClass!Weight(w)' = OneClass!Weight(w)
    BY DEF OneClass!Weight
  <2>2. QED BY <2>1
<1>2. OneClass!SlidingWindows(s)' = OneClass!SlidingWindows(s)
  BY DEF OneClass!SlidingWindows
<1>3. OneClass!Count(s)' = OneClass!Count(s) /\ OneClass!Norm(s)' = OneClass!Norm(s)
  BY <1>2 DEF OneClass!Count, OneClass!Norm
<1>4. QED BY <1>1, <1>2, <1>3 DEF OneClass!ScoreOf

(* Fitting, smoothing and scoring keep the invariant.                          *)
(* A row that was learned adds up to the whole, or is one of zeros.            *)
AnyRow(S) == OneClass!Rows(S) \cup {OneClass!NoRow(S)}

LEMMA AnyRowType ==
  ASSUME NEW S
  PROVE  AnyRow(S) \subseteq [S -> Nat]
<1> DEFINE W == 0 .. Share
<1>1. W \subseteq Nat
  BY PartAssumptions DEF OneClass!ScoreAssumption
<1>2. OneClass!Rows(S) \subseteq [S -> W]
  BY DEF OneClass!Rows
<1>3. OneClass!NoRow(S) \in [S -> Nat]
  BY DEF OneClass!NoRow
<1> HIDE DEF W
<1>4. [S -> W] \subseteq [S -> Nat]
  BY <1>1
<1>5. QED BY <1>2, <1>3, <1>4 DEF AnyRow

(* What Baum-Welch may end in.                                                 *)
LEMMA LearnedRows ==
  ASSUME OneClass!BaumWelch
  PROVE  /\ learned' = [start |-> learned'.start, trans |-> learned'.trans,
                        emit |-> learned'.emit]
         /\ learned'.start \in OneClass!Rows(HiddenStates)
         /\ learned'.trans \in [HiddenStates -> AnyRow(HiddenStates)]
         /\ learned'.emit \in [HiddenStates -> AnyRow(OneClass!Alphabet)]
<1> DEFINE H == HiddenStates
           A == OneClass!Alphabet
           TransOf(left, trans)   == [q \in H |-> IF q \in left THEN trans[q] ELSE OneClass!NoRow(H)]
           EmitOf(visited, emit) == [q \in H |-> IF q \in visited THEN emit[q] ELSE OneClass!NoRow(A)]
<1>1. PICK visited \in SUBSET H :
        \E left \in SUBSET visited :
          \E start \in OneClass!RowsWithin(H, visited),
             trans \in [left -> OneClass!RowsWithin(H, visited)],
             emit \in [visited -> OneClass!RowsWithin(A, OneClass!Seen)] :
               learned' = [start |-> start, trans |-> TransOf(left, trans),
                           emit |-> EmitOf(visited, emit)]
  BY Zenon DEF OneClass!BaumWelch
<1>7. PICK left \in SUBSET visited :
        \E start \in OneClass!RowsWithin(H, visited),
           trans \in [left -> OneClass!RowsWithin(H, visited)],
           emit \in [visited -> OneClass!RowsWithin(A, OneClass!Seen)] :
             learned' = [start |-> start, trans |-> TransOf(left, trans),
                         emit |-> EmitOf(visited, emit)]
  BY <1>1
<1>2. PICK start \in OneClass!RowsWithin(H, visited),
           trans \in [left -> OneClass!RowsWithin(H, visited)],
           emit \in [visited -> OneClass!RowsWithin(A, OneClass!Seen)] :
             learned' = [start |-> start, trans |-> TransOf(left, trans),
                         emit |-> EmitOf(visited, emit)]
  BY <1>7
<1>3. \A S, T : OneClass!RowsWithin(S, T) \subseteq OneClass!Rows(S)
  BY DEF OneClass!RowsWithin
<1> HIDE DEF H, A
<1>4. TransOf(left, trans) \in [H -> AnyRow(H)]
  BY <1>2, <1>3 DEF AnyRow
<1>5. EmitOf(visited, emit) \in [H -> AnyRow(A)]
  BY <1>2, <1>3 DEF AnyRow
<1> HIDE DEF TransOf, EmitOf
<1>6. QED BY <1>2, <1>3, <1>4, <1>5 DEF H, A

(* Every step keeps that.                                                      *)
LEMMA OneClassStep == OneClassInv /\ [OneClass!Next]_oneClassVars => OneClassInv'
<1> SUFFICES ASSUME OneClassInv, [OneClass!Next]_oneClassVars PROVE OneClassInv'
  OBVIOUS
<1>1. ASSUME UNCHANGED <<window, model, scored>>,
             fitting' # "idle" => model = OneClass!NoHmm,
             fitting' = "learned" =>
               /\ learned'.start \in [HiddenStates -> Nat]
               /\ learned'.trans \in [HiddenStates -> [HiddenStates -> Nat]]
               /\ learned'.emit \in [HiddenStates -> [OneClass!Alphabet -> Nat]]
               /\ learned' = [start |-> learned'.start, trans |-> learned'.trans,
                              emit |-> learned'.emit]
      PROVE  OneClassInv'
  <2>1. \A s : OneClass!ScoreOf(s)' = OneClass!ScoreOf(s)
    BY <1>1, SameModelSameScore
  <2>2. Typed(model)' <=> Typed(model)
    BY <1>1
  <2>3. scored' # OneClass!Empty =>
          model' # OneClass!NoHmm /\ \E s \in Asked : scored' = OneClass!ScoreOf(s)'
    BY <1>1, <2>1 DEF OneClassInv
  <2>4. QED BY <1>1, <2>2, <2>3 DEF OneClassInv
<1>2. ASSUME NEW sequences \in Trainings, OneClass!Fit(sequences) PROVE OneClassInv'
  <2>1. /\ UNCHANGED <<window, model, scored>> /\ model = OneClass!NoHmm /\ fitting' = "cut"
    BY <1>2 DEF OneClass!Fit
  <2>2. QED BY <1>1, <2>1
<1>3. CASE OneClass!Sample
  <2>1. UNCHANGED <<window, model, scored>> /\ fitting = "cut" /\ fitting' = "sampled"
    BY <1>3, Zenon DEF OneClass!Sample
  <2>2. QED BY <1>1, <2>1 DEF OneClassInv
<1>4. CASE OneClass!BaumWelch
  <2>1. UNCHANGED <<window, model, scored>> /\ fitting = "sampled" /\ fitting' = "learned"
    BY <1>4 DEF OneClass!BaumWelch
  <2>2. /\ learned'.start \in AnyRow(HiddenStates)
        /\ learned'.trans \in [HiddenStates -> AnyRow(HiddenStates)]
        /\ learned'.emit \in [HiddenStates -> AnyRow(OneClass!Alphabet)]
        /\ learned' = [start |-> learned'.start, trans |-> learned'.trans,
                       emit |-> learned'.emit]
    BY <1>4, LearnedRows DEF AnyRow
  <2>3. /\ learned'.start \in [HiddenStates -> Nat]
        /\ learned'.trans \in [HiddenStates -> [HiddenStates -> Nat]]
        /\ learned'.emit \in [HiddenStates -> [OneClass!Alphabet -> Nat]]
    <3> DEFINE R == AnyRow(HiddenStates)
               S == AnyRow(OneClass!Alphabet)
               M == [HiddenStates -> Nat]
               N == [OneClass!Alphabet -> Nat]
    <3>1. R \subseteq M /\ S \subseteq N
      BY AnyRowType
    <3> HIDE DEF R, S, M, N
    <3>2. [HiddenStates -> R] \subseteq [HiddenStates -> M] /\ [HiddenStates -> S] \subseteq [HiddenStates -> N]
      BY <3>1
    <3>3. QED BY <2>2, <3>1, <3>2 DEF R, S, M, N
  <2>4. QED BY <1>1, <2>1, <2>2, <2>3 DEF OneClassInv
<1>5. CASE OneClass!Smooth
  <2>1. /\ fitting = "learned" /\ fitting' = "idle" /\ UNCHANGED <<window, scored>>
        /\ model' = [learned EXCEPT !.emit =
                       [q \in HiddenStates |->
                          [a \in OneClass!Alphabet |-> OneClass!Smoothed(learned.emit[q], a)]]]
    BY <1>5 DEF OneClass!Smooth
  <2>2. Typed(learned) /\ learned = [start |-> learned.start, trans |-> learned.trans,
                                     emit |-> learned.emit]
    BY <2>1 DEF OneClassInv, Typed
  <2>3. \A q \in HiddenStates, a \in OneClass!Alphabet :
          OneClass!Smoothed(learned.emit[q], a) \in Nat
    <3> SUFFICES ASSUME NEW q \in HiddenStates, NEW a \in OneClass!Alphabet
                 PROVE  OneClass!Smoothed(learned.emit[q], a) \in Nat
      OBVIOUS
    <3> DEFINE e == learned.emit[q][a]
    <3>1. e \in Nat /\ Smoothing \in Nat /\ Share \in Nat /\ NSymbols \in Nat
      BY <2>2, PartAssumptions DEF Typed, OneClass!ScoreAssumption
    <3>2. PICK k \in {NSymbols, Smoothing + NSymbols} :
            OneClass!Smoothed(learned.emit[q], a) = (e * Smoothing + Share) * k
      BY DEF OneClass!Smoothed
    <3> HIDE DEF e
    <3> DEFINE x == e * Smoothing + Share
    <3>3. x \in Nat /\ k \in Nat
      BY <3>1
    <3> HIDE DEF x
    <3>4. x * k \in Nat
      BY <3>3
    <3>5. QED BY <3>2, <3>4 DEF x
  <2>4. /\ model'.start = learned.start /\ model'.trans = learned.trans
        /\ model'.emit = [q \in HiddenStates |->
                            [a \in OneClass!Alphabet |-> OneClass!Smoothed(learned.emit[q], a)]]
    BY <2>1, <2>2
  <2>5. model'.emit \in [HiddenStates -> [OneClass!Alphabet -> Nat]]
    BY <2>3, <2>4
  <2>6. Typed(model)'
    BY <2>2, <2>4, <2>5 DEF Typed
  <2>7. scored' = OneClass!Empty
    BY <2>1 DEF OneClassInv
  <2>8. QED BY <2>1, <2>6, <2>7 DEF OneClassInv
<1>6. ASSUME NEW s \in Asked, OneClass!Score(s) PROVE OneClassInv'
  <2>1. /\ fitting = "idle" /\ model # OneClass!NoHmm /\ scored' = OneClass!ScoreOf(s)
        /\ UNCHANGED <<window, fitting, learned, model>>
    BY <1>6 DEF OneClass!Score
  <2>2. OneClass!ScoreOf(s)' = OneClass!ScoreOf(s)
    BY <2>1, SameModelSameScore
  <2>3. Typed(model)' <=> Typed(model)
    BY <2>1
  <2>4. \E o \in Asked : scored' = OneClass!ScoreOf(o)'
    BY <2>1, <2>2
  <2>5. QED BY <2>1, <2>3, <2>4 DEF OneClassInv
<1>7. CASE UNCHANGED oneClassVars
  <2>1. UNCHANGED <<window, fitting, learned, model, scored>>
    BY <1>7 DEF oneClassVars
  <2>2. QED BY <1>1, <2>1 DEF OneClassInv
<1>8. QED BY <1>2, <1>3, <1>4, <1>5, <1>6, <1>7 DEF OneClass!Next

(* So it always holds.                                                         *)
LEMMA OneClassInvariant == DetectorSpec => []OneClassInv
<1>1. DetectorInit => OneClassInv
  BY DEF DetectorInit, OneClass!Init, OneClassInv
<1>2. OneClassInv /\ [DetectorNext]_detectorVars => OneClassInv'
  <2>1. [DetectorNext]_detectorVars => [OneClass!Next]_oneClassVars
    BY DEF DetectorNext, Training, Scoring, Fit, Fuse, detectorVars
  <2>2. QED BY <2>1, OneClassStep
<1>3. QED BY <1>1, <1>2, PTL DEF DetectorSpec, detectorVars

(* Scored on the scale of its windows, for every model and every sequence.     *)
LEMMA HasWindow ==
  ASSUME Typed(model), window \in Nat \ {0}, NEW s \in Seq(OneClass!Alphabet), Len(s) >= window,
         scored = OneClass!ScoreOf(s)
  PROVE  OneClass!AnomalyHasWindow
<1> DEFINE A == OneClass!Alphabet
           cut == OneClass!SlidingWindows(s)
           n == Len(cut)
           e == [i \in DOMAIN cut |-> OneClass!Weight(cut[i])]
           alone == {OneClass!ScoreOf(w) : w \in OneClass!ToSet(cut)}
<1>1. /\ scored.sequence = s /\ scored.norm = window /\ scored.count = n
      /\ scored.total = Total(e, DOMAIN cut) /\ \A i \in DOMAIN cut : e[i] \in Nat
  BY ScoreIs
<1>2. /\ n \in Nat \ {0} /\ DOMAIN cut = 1 .. n
      /\ \A i \in 1 .. n : cut[i] \in Seq(A) /\ Len(cut[i]) = window
  <2> HIDE DEF A
  <2>1. s \in Seq(A)
    BY DEF A
  <2>2. QED BY <2>1, CutIs
<1>3. ASSUME NEW i \in 1 .. n
      PROVE  LET z == OneClass!ScoreOf(cut[i])
             IN  z.norm = window /\ z.count = 1 /\ z.total = e[i]
  <2> DEFINE w == cut[i]
             one == OneClass!SlidingWindows(w)
             d == [j \in DOMAIN one |-> OneClass!Weight(one[j])]
             z == OneClass!ScoreOf(w)
  <2>1. w \in Seq(A) /\ Len(w) = window /\ window \in Nat
    BY <1>2
  <2>2. one = <<w>>
    <3> HIDE DEF w, A
    <3>1. QED BY <2>1, CutIs
  <2>3. e[i] = OneClass!Weight(w) /\ e[i] \in Nat
    BY <1>1, <1>2
  <2> HIDE DEF w
  <2>4. /\ z.norm = window /\ z.count = Len(one) /\ z.total = Total(d, DOMAIN one)
    BY <2>1, ScoreIs
  <2>5. DOMAIN one = {1} /\ Len(one) = 1 /\ d[1] = e[i]
    BY <2>2, <2>3
  <2> HIDE DEF one, d
  <2>6. Total(d, {1}) = e[i]
    <3> DEFINE c == e[i]
    <3>1. c \in Int /\ \A x \in {1} : d[x] = c
      BY <2>3, <2>5
    <3> HIDE DEF c
    <3>2. IsFiniteSet({1}) /\ Cardinality({1}) = 1
      BY FS_Singleton
    <3>3. Total(d, {1}) = 1 * c
      BY <3>1, <3>2, TotalOfSame
    <3>4. QED BY <3>1, <3>3 DEF c
  <2>7. QED BY <2>4, <2>5, <2>6 DEF w
<1> DEFINE T == 1 .. n
<1>4. IsFiniteSet(T) /\ T # {} /\ Cardinality(T) = n
  <2>1. 1 \in Int /\ n \in Int /\ 1 <= n
    BY <1>2
  <2>2. IsFiniteSet(T) /\ Cardinality(T) = IF 1 > n THEN 0 ELSE n - 1 + 1
    BY <2>1, FS_Interval
  <2>3. 1 \in T
    BY <2>1
  <2> HIDE DEF T, n
  <2>4. QED BY <2>1, <2>2, <2>3
<1> HIDE DEF n, e, cut, T
<1>5. \A i \in T : e[i] \in Int
  BY <1>1, <1>2 DEF T
<1>6. PICK low \in T : \A i \in T : e[low] <= e[i]
  BY <1>4, <1>5, Extremes
<1>7. PICK high \in T : \A i \in T : e[i] <= e[high]
  BY <1>4, <1>5, Extremes
<1>8. e[low] * n <= Total(e, T) /\ Total(e, T) <= e[high] * n
  <2> DEFINE a == e[low]
             b == e[high]
  <2>1. a \in Int /\ b \in Int /\ (\A i \in T : a <= e[i]) /\ (\A i \in T : e[i] <= b)
    BY <1>5, <1>6, <1>7
  <2> HIDE DEF a, b
  <2>2. a * Cardinality(T) <= Total(e, T) /\ Total(e, T) <= b * Cardinality(T)
    BY <1>4, <1>5, <2>1, TotalBounds
  <2>3. QED BY <1>4, <2>2 DEF a, b
<1>9. scored.total = Total(e, T) /\ Total(e, T) \in Int
  BY <1>1, <1>2, <1>4, <1>5, TotalInt DEF T
<1>10. alone = {OneClass!ScoreOf(cut[i]) : i \in T}
  <2>1. OneClass!ToSet(cut) = {cut[i] : i \in T}
    BY <1>2, OneClassLibrary DEF T
  <2>2. QED BY <2>1
<1>11. ASSUME NEW w \in alone PROVE w.norm = scored.norm
  <2>1. PICK i \in T : w = OneClass!ScoreOf(cut[i])
    BY <1>10
  <2>2. QED BY <1>1, <1>3, <2>1 DEF T
<1>12. \E w \in alone : w.total * scored.count <= scored.total * w.count
  <2> DEFINE w == OneClass!ScoreOf(cut[low])
  <2>1. w \in alone
    BY <1>10
  <2>2. w.total = e[low] /\ w.count = 1
    BY <1>3 DEF T
  <2> HIDE DEF w, alone
  <2>3. w.total * scored.count <= scored.total * w.count
    <3>1. scored.total * 1 = scored.total
      BY <1>9
    <3>2. QED BY <1>1, <1>8, <1>9, <2>2, <3>1
  <2>4. QED BY <2>1, <2>3
<1>13. \E w \in alone : w.total * scored.count >= scored.total * w.count
  <2> DEFINE w == OneClass!ScoreOf(cut[high])
  <2>1. w \in alone
    BY <1>10
  <2>2. w.total = e[high] /\ w.count = 1
    BY <1>3 DEF T
  <2> HIDE DEF w, alone
  <2>3. w.total * scored.count >= scored.total * w.count
    <3>1. scored.total * 1 = scored.total
      BY <1>9
    <3>2. e[high] * n \in Int
      BY <1>2, <1>5, TimesInt
    <3>3. QED BY <1>1, <1>8, <1>9, <2>2, <3>1, <3>2
  <2>4. QED BY <2>1, <2>3
<1> HIDE DEF alone
<1>14. QED BY <1>1, <1>11, <1>12, <1>13 DEF OneClass!AnomalyHasWindow, alone, cut

(* The score a window model gives a sequence lies between those of its         *)
(* windows, on the same scale, for every model, window and alphabet: it is an  *)
(* anomaly only if one of its windows is, and is one if they all are.          *)
THEOREM AnomaliesHaveWindows == DetectorSpec => []AnomalyHasWindow
<1>1. OneClassInv => AnomalyHasWindow
  <2> SUFFICES ASSUME OneClassInv PROVE OneClass!AnomalyHasWindow
    BY DEF AnomalyHasWindow
  <2>1. window \in Nat
    BY PartAssumptions DEF OneClassInv, OneClass!ScoreAssumption
  <2>2. CASE window = 0
    BY <2>2 DEF OneClass!AnomalyHasWindow
  <2>3. CASE window # 0 /\ scored = OneClass!Empty
    <3>1. scored.sequence = <<>>
      BY <2>3 DEF OneClass!Empty
    <3>2. ~ (Len(scored.sequence) >= window)
      BY <2>1, <2>3, <3>1
    <3>3. QED BY <3>2 DEF OneClass!AnomalyHasWindow
  <2>4. CASE window # 0 /\ scored # OneClass!Empty
    <3>1. PICK s \in Asked : scored = OneClass!ScoreOf(s)
      BY <2>4 DEF OneClassInv
    <3>2. s \in Seq(OneClass!Alphabet) /\ Typed(model) /\ window \in Nat \ {0}
      BY <2>1, <2>4, PartAssumptions DEF OneClassInv, OneClass!ScoreAssumption
    <3>3. scored.sequence = s
      BY <3>1, <2>4 DEF OneClass!ScoreOf
    <3>4. CASE Len(s) >= window
      BY <3>1, <3>2, <3>4, HasWindow
    <3>5. CASE ~ (Len(s) >= window)
      BY <3>3, <3>5 DEF OneClass!AnomalyHasWindow
    <3>6. QED BY <3>4, <3>5
  <2>5. QED BY <2>2, <2>3, <2>4
<1>2. QED BY <1>1, OneClassInvariant, PTL

------------------------------------------------------------------------------
(* Where a fitted model starts and what its states emit are distributions, and *)
(* it excludes no symbol.                                                      *)
Emitting(m) ==
  /\ Typed(m)
  /\ Total(m.start, HiddenStates) = Share
  /\ \A q \in HiddenStates :
       /\ Total(m.emit[q], OneClass!Alphabet) = OneClass!Unit
       /\ \A a \in OneClass!Alphabet : m.emit[q][a] > 0

(* So are its transitions, if it can go on from every state.                   *)
Stochastic(m) ==
  /\ Emitting(m)
  /\ \A q \in HiddenStates : Total(m.trans[q], HiddenStates) = Share

(* The numbers of the model's denominators, and of its symbols.                *)
LEMMA Denominators ==
  /\ Share \in Nat \ {0} /\ Smoothing \in Nat \ {0} /\ OneClass!Unit \in Nat
  /\ OneClass!Unit = (Share * (Smoothing + NSymbols)) * NSymbols
  /\ NSymbols \in Nat \ {0}
  /\ IsFiniteSet(OneClass!Alphabet) /\ Cardinality(OneClass!Alphabet) = NSymbols
<1>1. Share \in Nat \ {0} /\ Smoothing \in Nat \ {0} /\ NSymbols \in Nat \ {0}
  BY PartAssumptions DEF OneClass!ScoreAssumption
<1>2. OneClass!Unit = (Share * (Smoothing + NSymbols)) * NSymbols
  BY DEF OneClass!Unit
<1>3. OneClass!Unit \in Nat
  <2> DEFINE z == Smoothing + NSymbols
  <2>1. z \in Nat
    BY <1>1
  <2> HIDE DEF z
  <2> DEFINE y == Share * z
  <2>2. y \in Nat
    BY <1>1, <2>1
  <2> HIDE DEF y
  <2>3. y * NSymbols \in Nat
    BY <1>1, <2>2
  <2>4. QED BY <1>2, <2>3 DEF y, z
<1> DEFINE T == 0 .. (NSymbols - 1)
<1>4. 0 \in Int /\ NSymbols - 1 \in Int /\ 0 <= NSymbols - 1
  BY <1>1
<1>5. IsFiniteSet(T) /\ Cardinality(T) = IF 0 > NSymbols - 1 THEN 0 ELSE NSymbols - 1 - 0 + 1
  <2> DEFINE l == NSymbols - 1
  <2>1. 0 \in Int /\ l \in Int
    BY <1>4
  <2> HIDE DEF l
  <2>2. IsFiniteSet(0 .. l) /\ Cardinality(0 .. l) = IF 0 > l THEN 0 ELSE l - 0 + 1
    BY <2>1, FS_Interval
  <2>3. QED BY <2>2 DEF l
<1> HIDE DEF T
<1>6. Cardinality(T) = NSymbols
  BY <1>1, <1>4, <1>5
<1>7. QED BY <1>1, <1>2, <1>3, <1>5, <1>6 DEF T, OneClass!Alphabet

(* Onward and with a symbol more, weights are weights.                         *)
LEMMA VectorTypes ==
  ASSUME Typed(model), NEW v \in [HiddenStates -> Nat]
  PROVE  /\ Onward(v) \in [HiddenStates -> Nat]
         /\ \A a \in OneClass!Alphabet : Enter(v, a) \in [HiddenStates -> Nat]
<1>1. ASSUME NEW q \in HiddenStates
      PROVE  Total([p \in HiddenStates |-> v[p] * model.trans[p][q]], HiddenStates) \in Nat
  <2> DEFINE f == [p \in HiddenStates |-> v[p] * model.trans[p][q]]
  <2>1. ASSUME NEW p \in HiddenStates PROVE f[p] \in Nat
    <3> DEFINE a == v[p]
               t == model.trans[p][q]
    <3>1. a \in Nat /\ t \in Nat /\ f[p] = a * t
      BY DEF Typed
    <3> HIDE DEF a, t, f
    <3>2. QED BY <3>1
  <2> HIDE DEF f
  <2>2. \A p \in HiddenStates : f[p] \in Nat
    BY <2>1
  <2>3. QED BY <2>2, OneClassLibrary, SumType DEF f
<1>2. ASSUME NEW a \in OneClass!Alphabet, NEW q \in HiddenStates
      PROVE  model.emit[q][a] * v[q] \in Nat
  <2> DEFINE x == model.emit[q][a]
             y == v[q]
  <2>1. x \in Nat /\ y \in Nat
    BY DEF Typed
  <2> HIDE DEF x, y
  <2>2. x * y \in Nat
    BY <2>1
  <2>3. QED BY <2>2 DEF x, y
<1>3. QED BY <1>1, <1>2 DEF Onward, Mixed, Enter

(* Over all symbols, what enters weighs what it came from, times the unit.     *)
LEMMA EnterSpreads ==
  ASSUME Emitting(model), NEW v \in [HiddenStates -> Nat]
  PROVE  Total([a \in OneClass!Alphabet |-> Total(Enter(v, a), HiddenStates)], OneClass!Alphabet)
           = Total(v, HiddenStates) * OneClass!Unit
<1> DEFINE A == OneClass!Alphabet
           H == HiddenStates
           W == model.emit
           u == OneClass!Unit
<1>1. ASSUME NEW a \in A, NEW q \in H PROVE W[q][a] * v[q] = v[q] * W[q][a]
  <2> DEFINE x == W[q][a]
             y == v[q]
  <2>1. x \in Nat /\ y \in Nat
    BY DEF Typed, Emitting
  <2> HIDE DEF x, y
  <2>2. x * y = y * x
    BY <2>1
  <2>3. QED BY <2>2 DEF x, y
<1>2. \A a \in A : Enter(v, a) = [q \in H |-> v[q] * W[q][a]]
  BY <1>1 DEF Enter
<1>3. [a \in A |-> Total(Enter(v, a), H)] = Mixed(v, W, H, A)
  BY <1>2 DEF Mixed
<1>4. /\ W \in [H -> [A -> Nat]] /\ u \in Int /\ \A q \in H : Total(W[q], A) = u
      /\ IsFiniteSet(H) /\ IsFiniteSet(A)
  BY Denominators, OneClassLibrary DEF Emitting, Typed
<1> HIDE DEF A, H, W, u
<1>5. Total(Mixed(v, W, H, A), A) = Total(v, H) * u
  BY <1>4, MixedTotal DEF H
<1>6. QED BY <1>3, <1>5 DEF A, H, u

(* Over all states that follow, weights are multiplied by the share.           *)
LEMMA OnwardSpreads ==
  ASSUME Stochastic(model), NEW v \in [HiddenStates -> Nat]
  PROVE  Total(Onward(v), HiddenStates) = Total(v, HiddenStates) * Share
<1> DEFINE W == model.trans
<1>1. /\ W \in [HiddenStates -> [HiddenStates -> Nat]] /\ Share \in Int
      /\ \A q \in HiddenStates : Total(W[q], HiddenStates) = Share
      /\ IsFiniteSet(HiddenStates)
  BY Denominators, OneClassLibrary DEF Stochastic, Emitting, Typed
<1> HIDE DEF W
<1>2. Total(Mixed(v, W, HiddenStates, HiddenStates), HiddenStates)
        = Total(v, HiddenStates) * Share
  BY <1>1, MixedTotal
<1>3. QED BY <1>2 DEF Onward, W

(* Along a sequence and along one that begins with it, the vectors agree.      *)
LEMMA ForwardBegins ==
  ASSUME NEW n \in Nat \ {0}, NEW u, NEW v, NEW s, NEW r,
         Forward(u, s, n), Forward(v, r, n), \A i \in 1 .. n : s[i] = r[i]
  PROVE  u[n] = v[n]
<1> DEFINE N == {i \in Nat : i + 1 <= n => u[i + 1] = v[i + 1]}
<1>1. N \in SUBSET Nat /\ 0 \in N
  <2>1. 1 \in 1 .. n /\ 0 \in Nat /\ 0 + 1 = 1
    OBVIOUS
  <2>2. u[1] = v[1]
    BY <2>1 DEF Forward
  <2>3. QED BY <2>1, <2>2
<1>2. ASSUME NEW i \in N PROVE i + 1 \in N
  <2> SUFFICES ASSUME (i + 1) + 1 <= n PROVE u[(i + 1) + 1] = v[(i + 1) + 1]
    OBVIOUS
  <2> DEFINE j == (i + 1) + 1
  <2>1. j \in 1 .. n /\ j \in 2 .. n /\ j - 1 = i + 1 /\ i + 1 <= n
    OBVIOUS
  <2>2. u[j - 1] = v[j - 1] /\ s[j] = r[j]
    BY <2>1
  <2> HIDE DEF j
  <2>3. u[j] = v[j]
    BY <2>1, <2>2 DEF Forward
  <2>4. QED BY <2>3 DEF j
<1> HIDE DEF N
<1>3. N = Nat
  BY <1>1, <1>2, NatSetInduction
<1>4. n - 1 \in N /\ (n - 1) + 1 = n
  BY <1>3
<1>5. QED BY <1>4 DEF N

------------------------------------------------------------------------------
(* All sequences of one length, and what they weigh together.                  *)
OfLength(n) == [1 .. n -> OneClass!Alphabet]
Weights(n)  == [s \in OfLength(n) |-> OneClass!Weight(s)]
Mass(n)     == Total(Weights(n), OfLength(n))

(* A sequence with one symbol more.                                            *)
Longer(s, n, a) == [i \in 1 .. (n + 1) |-> IF i = n + 1 THEN a ELSE s[i]]

(* A tuple of symbols is a sequence.                                           *)
LEMMA OfLengthIs ==
  ASSUME NEW n \in Nat \ {0}, NEW s \in OfLength(n)
  PROVE  s \in Seq(OneClass!Alphabet) /\ Len(s) = n /\ s # <<>>
<1> DEFINE A == OneClass!Alphabet
<1> HIDE DEF A
<1>1. s \in [1 .. n -> A]
  BY DEF OfLength, A
<1>2. s \in Seq(A) /\ Len(s) = n
  BY <1>1, FunctionIsSeq
<1>3. s # <<>>
  BY <1>2, EmptySeq
<1>4. QED BY <1>2, <1>3 DEF A

(* There are finitely many, and each has a weight.                             *)
LEMMA WeightsType ==
  ASSUME Emitting(model), NEW n \in Nat \ {0}
  PROVE  /\ IsFiniteSet(OfLength(n))
         /\ \A s \in OfLength(n) : Weights(n)[s] = OneClass!Weight(s) /\ Weights(n)[s] \in Nat
         /\ Mass(n) \in Nat
<1> DEFINE A == OneClass!Alphabet
<1>1. IsFiniteSet(OfLength(n))
  <2>1. IsFiniteSet(A) /\ n \in Nat
    BY Denominators
  <2> HIDE DEF A
  <2>2. IsFiniteSet([1 .. n -> A])
    BY <2>1, TuplesFinite
  <2>3. QED BY <2>2 DEF OfLength, A
<1>2. ASSUME NEW s \in OfLength(n)
      PROVE  Weights(n)[s] = OneClass!Weight(s) /\ OneClass!Weight(s) \in Nat
  <2>1. Weights(n)[s] = OneClass!Weight(s)
    BY DEF Weights
  <2>2. OneClass!Weight(s) \in Nat
    BY OfLengthIs, WeightType DEF Emitting
  <2>3. QED BY <2>1, <2>2
<1>3. Mass(n) \in Nat
  BY <1>1, <1>2, SumType DEF Mass
<1>4. QED BY <1>1, <1>2, <1>3

(* With each symbol once, a sequence goes on to weigh the whole times as much. *)
LEMMA LongerWeights ==
  ASSUME Stochastic(model), NEW n \in Nat \ {0}, NEW s \in OfLength(n)
  PROVE  Total([a \in OneClass!Alphabet |-> OneClass!Weight(Longer(s, n, a))], OneClass!Alphabet)
           = OneClass!Weight(s) * (Share * OneClass!Unit)
<1> DEFINE A == OneClass!Alphabet
           H == HiddenStates
<1>1. Typed(model) /\ s \in Seq(A) /\ Len(s) = n /\ s # <<>>
  BY OfLengthIs DEF Stochastic, Emitting
<1>2. PICK u : /\ \A i \in 1 .. n : u[i] \in [H -> Nat]
               /\ Forward(u, s, n)
               /\ OneClass!Weight(s) = Total(u[n], H)
  BY <1>1, WeightIs
<1> DEFINE w == u[n]
           v == Onward(w)
<1>3. n \in 1 .. n /\ n + 1 \in 2 .. (n + 1) /\ (n + 1) - 1 = n /\ n + 1 \in Nat \ {0}
      /\ 2 .. n \subseteq 2 .. (n + 1) /\ 1 .. n \subseteq 1 .. (n + 1) /\ n + 1 \notin 1 .. n
      /\ n + 1 \in 1 .. (n + 1)
  OBVIOUS
<1>4. w \in [H -> Nat]
  BY <1>2, <1>3
<1>5. v \in [H -> Nat]
  <2> HIDE DEF w
  <2>1. QED BY <1>1, <1>4, VectorTypes
<1>6. ASSUME NEW a \in A PROVE OneClass!Weight(Longer(s, n, a)) = Total(Enter(v, a), H)
  <2> DEFINE r == Longer(s, n, a)
             m == n + 1
  <2>1. r \in OfLength(m) /\ r[m] = a /\ \A i \in 1 .. n : s[i] = r[i]
    BY <1>3 DEF Longer, OfLength
  <2>2. m \in Nat \ {0}
    BY <1>3
  <2> HIDE DEF m, r
  <2>3. r \in Seq(A) /\ Len(r) = m /\ r # <<>>
    BY <2>1, <2>2, OfLengthIs
  <2>4. PICK z : Forward(z, r, m) /\ OneClass!Weight(r) = Total(z[m], H)
    BY <1>1, <2>3, WeightIs
  <2>5. Forward(z, r, n) /\ z[m] = Enter(Onward(z[n]), r[m])
    BY <1>3, <2>4 DEF Forward, m
  <2>6. w = z[n]
    BY <1>2, <2>1, <2>5, ForwardBegins
  <2>7. QED BY <2>1, <2>4, <2>5, <2>6 DEF r
<1> DEFINE e == [a \in A |-> Total(Enter(v, a), H)]
<1>7. [a \in A |-> OneClass!Weight(Longer(s, n, a))] = e
  <2> HIDE DEF v
  <2>1. QED BY <1>6
<1>8. Total(e, A) = Total(v, H) * OneClass!Unit
  <2> HIDE DEF v
  <2>1. QED BY <1>5, EnterSpreads DEF Stochastic
<1>9. Total(v, H) = OneClass!Weight(s) * Share
  <2> HIDE DEF w
  <2>1. Total(v, H) = Total(w, H) * Share
    BY <1>4, OnwardSpreads
  <2>2. QED BY <1>2, <2>1 DEF w
<1>10. OneClass!Weight(s) \in Nat /\ Share \in Nat /\ OneClass!Unit \in Nat
  BY <1>1, WeightType, Denominators
<1> DEFINE x == OneClass!Weight(s)
           y == OneClass!Unit
<1> HIDE DEF e, v, x, y
<1>11. (x * Share) * y = x * (Share * y)
  BY <1>10 DEF x, y
<1>12. QED BY <1>7, <1>8, <1>9, <1>11 DEF x, y

(* The sequences of one symbol weigh the whole together.                       *)
LEMMA MassOfOne ==
  ASSUME Emitting(model)
  PROVE  Mass(1) = Share * OneClass!Unit
<1> DEFINE A == OneClass!Alphabet
           H == HiddenStates
           start == model.start
           b == [a \in A |-> [i \in 1 .. 1 |-> a]]
           e == [a \in A |-> Total(Enter(start, a), H)]
           g == Weights(1)
<1>1. Typed(model) /\ start \in [H -> Nat] /\ Total(start, H) = Share
  BY DEF Emitting, Typed
<1>2. ASSUME NEW a \in A
      PROVE  b[a] \in OfLength(1) /\ g[b[a]] = e[a] /\ e[a] \in Int
  <2> DEFINE s == b[a]
             n == 1
  <2>1. s \in OfLength(n) /\ s[1] = a /\ n \in Nat \ {0}
    BY DEF OfLength
  <2>2. g[s] = OneClass!Weight(s)
    BY <2>1 DEF Weights
  <2> HIDE DEF s, n
  <2>3. s \in Seq(A) /\ Len(s) = n /\ s # <<>>
    BY <2>1, OfLengthIs
  <2>4. PICK z : Forward(z, s, n) /\ OneClass!Weight(s) = Total(z[n], H)
    BY <1>1, <2>3, WeightIs
  <2>5. z[n] = Enter(start, a)
    BY <2>1, <2>4 DEF Forward, n
  <2>6. OneClass!Weight(s) \in Nat
    BY <1>1, <2>3, WeightType
  <2>7. e[a] = OneClass!Weight(s)
    BY <2>4, <2>5
  <2> HIDE DEF e, g
  <2>8. QED BY <2>1, <2>2, <2>6, <2>7 DEF s, n
<1>3. ASSUME NEW a \in A, NEW c \in A, b[a] = b[c] PROVE a = c
  <2>1. b[a][1] = a /\ b[c][1] = c
    OBVIOUS
  <2>2. QED BY <1>3, <2>1
<1>4. {b[a] : a \in A} = OfLength(1)
  <2>1. ASSUME NEW s \in OfLength(1) PROVE s = b[s[1]] /\ s[1] \in A
    BY DEF OfLength
  <2> HIDE DEF b
  <2>2. QED BY <1>2, <2>1
<1> DEFINE c == 1
<1>5. c \in Int /\ \A a \in A : e[a] \in Int /\ g[b[a]] = e[a] * c
  <2> HIDE DEF e, g, b, A
  <2>1. QED BY <1>2
<1>6. Total(e, A) = Share * OneClass!Unit
  <2> HIDE DEF start
  <2>1. Total(e, A) = Total(start, H) * OneClass!Unit
    BY <1>1, EnterSpreads
  <2>2. QED BY <1>1, <2>1
<1> HIDE DEF e, g, b, A, c
<1>7. \A a, d \in A : b[a] = b[d] => a = d
  BY <1>3
<1>8. Total(g, {b[a] : a \in A}) = Total(e, A) * c
  <2>1. IsFiniteSet(A)
    BY Denominators DEF A
  <2>2. QED BY <1>5, <1>7, <2>1, TotalScaled
<1> DEFINE m == Total(e, A)
<1>9. m \in Int
  <2>1. IsFiniteSet(A)
    BY Denominators DEF A
  <2>2. QED BY <1>5, <2>1, TotalInt
<1> HIDE DEF m
<1>10. m * c = m
  BY <1>9 DEF c
<1>11. Mass(1) = m
  BY <1>4, <1>8, <1>10 DEF Mass, g, m
<1>12. QED BY <1>6, <1>11 DEF m

(* Those with one symbol more weigh the whole times as much.                   *)
LEMMA MassGrows ==
  ASSUME Stochastic(model), NEW n \in Nat \ {0}
  PROVE  Mass(n + 1) = Mass(n) * (Share * OneClass!Unit)
<1> DEFINE A == OneClass!Alphabet
           m == n + 1
           X == OfLength(n)
           Y == OfLength(m)
           f == Weights(n)
           g == Weights(m)
           c == Share * OneClass!Unit
           k == [r \in Y |-> [i \in 1 .. n |-> r[i]]]
           h == [s \in X |-> f[s] * c]
<1>1. /\ m \in Nat \ {0} /\ 1 .. n \subseteq 1 .. m /\ n + 1 \notin 1 .. n /\ n + 1 \in 1 .. m
      /\ 1 .. m = 1 .. n \cup {n + 1} /\ m = n + 1
  OBVIOUS
<1>2. c \in Int
  <2> DEFINE y == OneClass!Unit
  <2>1. Share \in Nat /\ y \in Nat
    BY Denominators
  <2> HIDE DEF y
  <2>2. Share * y \in Int
    BY <2>1
  <2>3. QED BY <2>2 DEF y
<1>3. /\ IsFiniteSet(X) /\ \A s \in X : f[s] = OneClass!Weight(s) /\ f[s] \in Nat
      /\ IsFiniteSet(Y) /\ \A r \in Y : g[r] = OneClass!Weight(r) /\ g[r] \in Nat
  <2> HIDE DEF m
  <2>1. QED BY <1>1, WeightsType DEF Stochastic
<1>4. \A r \in Y : k[r] \in X
  BY <1>1 DEF OfLength
<1>5. ASSUME NEW s \in X PROVE h[s] = Total(g, {r \in Y : k[r] = s})
  <2> DEFINE b == [a \in A |-> Longer(s, n, a)]
             e == [a \in A |-> OneClass!Weight(Longer(s, n, a))]
             o == 1
  <2>1. ASSUME NEW a \in A
        PROVE  b[a] \in Y /\ k[b[a]] = s /\ b[a][m] = a /\ b[a] = Longer(s, n, a)
    <3> DEFINE r == Longer(s, n, a)
    <3>1. r \in Y /\ r[n + 1] = a /\ \A i \in 1 .. n : r[i] = s[i]
      BY <1>1 DEF OfLength, Longer
    <3>2. k[r] = s
      <4>1. k[r] = [i \in 1 .. n |-> r[i]]
        BY <3>1
      <4>2. s = [i \in 1 .. n |-> s[i]]
        BY DEF OfLength
      <4> HIDE DEF r, k
      <4>3. QED BY <3>1, <4>1, <4>2
    <3>3. b[a] = r
      OBVIOUS
    <3> HIDE DEF r, k, b
    <3>4. QED BY <1>1, <3>1, <3>2, <3>3 DEF r
  <2>2. ASSUME NEW r \in Y, k[r] = s PROVE r[m] \in A /\ r = b[r[m]]
    <3>1. r[m] \in A
      BY <1>1 DEF OfLength
    <3>2. \A i \in 1 .. n : r[i] = s[i]
      <4>1. k[r] = [i \in 1 .. n |-> r[i]]
        OBVIOUS
      <4> HIDE DEF k
      <4>2. s = [i \in 1 .. n |-> r[i]]
        BY <2>2, <4>1
      <4>3. QED BY <4>2
    <3>3. r = Longer(s, n, r[m])
      <4> DEFINE l == Longer(s, n, r[m])
      <4>1. \A i \in 1 .. m : l[i] = r[i]
        BY <1>1, <3>2 DEF Longer
      <4>2. l = [i \in 1 .. m |-> l[i]] /\ r = [i \in 1 .. m |-> r[i]]
        BY <1>1 DEF Longer, OfLength
      <4> HIDE DEF l
      <4>3. QED BY <4>1, <4>2 DEF l
    <3>4. QED BY <3>1, <3>3
  <2>3. {b[a] : a \in A} = {r \in Y : k[r] = s}
    <3> HIDE DEF b, k, Y, m
    <3>1. QED BY <2>1, <2>2
  <2>4. \A a, d \in A : b[a] = b[d] => a = d
    <3> HIDE DEF b, m
    <3>1. QED BY <2>1
  <2>5. \A a \in A : e[a] \in Int /\ g[b[a]] = e[a] * o
    <3>1. \A a \in A : e[a] = OneClass!Weight(b[a])
      OBVIOUS
    <3> HIDE DEF b, e, g, Y, A
    <3>2. \A a \in A : b[a] \in Y
      BY <2>1
    <3>3. \A a \in A : g[b[a]] = e[a] /\ e[a] \in Int
      BY <1>3, <3>1, <3>2
    <3>4. QED BY <3>3
  <2>6. Total(e, A) = f[s] * c
    <3>1. Total(e, A) = OneClass!Weight(s) * c
      BY LongerWeights
    <3>2. f[s] = OneClass!Weight(s)
      BY <1>3
    <3> HIDE DEF e, f, c
    <3>3. QED BY <3>1, <3>2
  <2>7. h[s] = f[s] * c
    OBVIOUS
  <2>8. IsFiniteSet(A) /\ o \in Int
    BY Denominators
  <2> HIDE DEF A, b, e, g, f, h, k, c, o, X, Y, m
  <2>9. Total(g, {b[a] : a \in A}) = Total(e, A) * o
    BY <2>4, <2>5, <2>8, TotalScaled
  <2>10. Total(e, A) \in Int
    BY <2>5, <2>8, TotalInt
  <2> DEFINE z == Total(e, A)
  <2> HIDE DEF z
  <2>11. z * o = z
    BY <2>10 DEF z, o
  <2>12. QED BY <2>3, <2>6, <2>7, <2>9, <2>11 DEF z
<1>6. \A s \in X : f[s] \in Int /\ h[s] = f[s] * c
  <2> HIDE DEF f, c, X
  <2>1. QED BY <1>3
<1> HIDE DEF A, X, Y, f, g, c, k, h
<1>7. ByClass(Y, X, k, g, h)
  BY <1>3, <1>4, <1>5 DEF ByClass
<1>8. Total(h, X) = Total(g, Y)
  BY <1>3, <1>7, TotalByClass
<1>9. Total(h, X) = Total(f, X) * c
  BY <1>2, <1>3, <1>6, TotalTimes
<1>10. QED BY <1>8, <1>9 DEF Mass, X, Y, f, g, c

------------------------------------------------------------------------------
(* No symbol makes a sequence impossible: one state may be reached at each.    *)
LEMMA WeightPositive ==
  ASSUME Stochastic(model), NEW s \in Seq(OneClass!Alphabet), s # <<>>
  PROVE  OneClass!Weight(s) > 0
<1> DEFINE A == OneClass!Alphabet
           H == HiddenStates
           n == Len(s)
           start == model.start
<1>1. n \in Nat /\ n > 0 /\ \A i \in 1 .. n : s[i] \in A
  <2> HIDE DEF A
  <2>1. s \in Seq(A) /\ s # <<>>
    BY DEF A
  <2>2. n \in Nat /\ s \in [1 .. n -> A]
    BY <2>1, LenProperties
  <2>3. n # 0
    BY <2>1, EmptySeq
  <2>4. QED BY <2>2, <2>3
<1>2. Typed(model) /\ Share > 0 /\ IsFiniteSet(H)
  BY Denominators, OneClassLibrary DEF Stochastic, Emitting
<1>3. PICK u : /\ \A i \in 1 .. n : u[i] \in [H -> Nat]
               /\ Forward(u, s, n)
               /\ OneClass!Weight(s) = Total(u[n], H)
  BY <1>2, WeightIs
<1> HIDE DEF n
<1>4. ASSUME NEW v \in [H -> Nat], NEW q \in H, v[q] > 0, NEW a \in A
      PROVE  Enter(v, a)[q] > 0
  <2> DEFINE x == model.emit[q][a]
             y == v[q]
  <2>1. x \in Nat /\ x > 0 /\ y \in Nat /\ y > 0
    BY <1>2, <1>4 DEF Typed, Stochastic, Emitting
  <2>2. Enter(v, a)[q] = x * y
    BY DEF Enter
  <2> HIDE DEF x, y
  <2>3. x * y > 0
    BY <2>1
  <2>4. QED BY <2>2, <2>3
<1>5. ASSUME NEW v \in [H -> Nat], NEW p \in H, v[p] > 0
      PROVE  \E q \in H : Onward(v)[q] > 0
  <2> DEFINE t == model.trans[p]
  <2>1. t \in [H -> Nat] /\ Total(t, H) = Share
    BY <1>2 DEF Stochastic, Emitting, Typed
  <2> HIDE DEF t
  <2>2. \A q \in H : t[q] \in Nat
    BY <2>1
  <2>3. PICK q \in H : t[q] > 0
    BY <1>2, <2>1, <2>2, PositiveTerm
  <2> DEFINE f == [o \in H |-> v[o] * model.trans[o][q]]
  <2>4. Onward(v)[q] = Total(f, H)
    BY DEF Onward, Mixed
  <2>5. ASSUME NEW o \in H PROVE f[o] \in Nat /\ (v[o] > 0 /\ model.trans[o][q] > 0 => f[o] > 0)
    <3> DEFINE x == v[o]
               y == model.trans[o][q]
    <3>1. x \in Nat /\ y \in Nat /\ f[o] = x * y
      BY <1>2 DEF Typed
    <3> HIDE DEF x, y, f
    <3>2. f[o] \in Nat /\ (x > 0 /\ y > 0 => f[o] > 0)
      BY <3>1
    <3>3. QED BY <3>2 DEF x, y
  <2>6. f[p] > 0
    BY <1>5, <2>3, <2>5 DEF t
  <2> HIDE DEF f
  <2>7. \A o \in H : f[o] \in Nat
    BY <2>5
  <2>8. Total(f, H) > 0
    BY <1>2, <2>6, <2>7, TotalPositive
  <2>9. QED BY <2>4, <2>8
<1> DEFINE N == {i \in Nat : i + 1 <= n => \E q \in H : u[i + 1][q] > 0}
<1>6. N \in SUBSET Nat /\ 0 \in N
  <2>1. 1 \in 1 .. n /\ 0 \in Nat /\ 0 + 1 = 1
    BY <1>1
  <2>2. start \in [H -> Nat] /\ Total(start, H) = Share
    BY <1>2 DEF Stochastic, Emitting, Typed
  <2> HIDE DEF start
  <2>3. \A q \in H : start[q] \in Nat
    BY <2>2
  <2>4. PICK q \in H : start[q] > 0
    BY <1>2, <2>2, <2>3, PositiveTerm
  <2>5. u[1] = Enter(start, s[1]) /\ s[1] \in A
    BY <1>1, <1>3, <2>1 DEF Forward, start
  <2>6. u[1][q] > 0
    BY <1>4, <2>2, <2>4, <2>5
  <2>7. QED BY <2>1, <2>6
<1>7. ASSUME NEW i \in N PROVE i + 1 \in N
  <2> SUFFICES ASSUME (i + 1) + 1 <= n PROVE \E q \in H : u[(i + 1) + 1][q] > 0
    OBVIOUS
  <2> DEFINE j == (i + 1) + 1
             v == u[j - 1]
  <2>1. j \in 1 .. n /\ j \in 2 .. n /\ j - 1 \in 1 .. n /\ j - 1 = i + 1 /\ i + 1 <= n
    BY <1>1
  <2>2. \E p \in H : v[p] > 0
    BY <2>1
  <2> HIDE DEF j
  <2>3. v \in [H -> Nat] /\ u[j] = Enter(Onward(v), s[j]) /\ s[j] \in A
    BY <1>1, <1>3, <2>1 DEF Forward
  <2> HIDE DEF v
  <2>4. PICK q \in H : Onward(v)[q] > 0
    BY <1>5, <2>2, <2>3
  <2>5. Onward(v) \in [H -> Nat]
    BY <1>2, <2>3, VectorTypes
  <2>6. u[j][q] > 0
    BY <1>4, <2>3, <2>4, <2>5
  <2>7. QED BY <2>6 DEF j
<1> HIDE DEF N
<1>8. N = Nat
  BY <1>6, <1>7, NatSetInduction
<1> DEFINE w == u[n]
<1>9. w \in [H -> Nat] /\ \E q \in H : w[q] > 0
  <2>1. n - 1 \in N /\ (n - 1) + 1 = n /\ n \in 1 .. n
    BY <1>1, <1>8
  <2>2. QED BY <1>3, <2>1 DEF N
<1> HIDE DEF w
<1>10. \A q \in H : w[q] \in Nat
  BY <1>9
<1>11. Total(w, H) > 0
  BY <1>2, <1>9, <1>10, TotalPositive
<1>12. QED BY <1>3, <1>11 DEF w, n

(* In a model that excludes no symbol, it is the length alone that decides     *)
(* whether a sequence is possible: along any two the same states are reached.  *)
SamePossible(v, w) == \A q \in HiddenStates : v[q] = 0 <=> w[q] = 0

LEMMA EnterPossible ==
  ASSUME Emitting(model), NEW v \in [HiddenStates -> Nat], NEW a \in OneClass!Alphabet,
         NEW q \in HiddenStates
  PROVE  Enter(v, a)[q] = 0 <=> v[q] = 0
<1> DEFINE x == model.emit[q][a]
           y == v[q]
<1>1. x \in Nat /\ x > 0 /\ y \in Nat
  BY DEF Emitting, Typed
<1>2. Enter(v, a)[q] = x * y
  BY DEF Enter
<1> HIDE DEF x, y
<1>3. x * y = 0 <=> y = 0
  BY <1>1
<1>4. QED BY <1>2, <1>3 DEF y

LEMMA OnwardPossible ==
  ASSUME Typed(model), NEW v \in [HiddenStates -> Nat], NEW q \in HiddenStates
  PROVE  Onward(v)[q] = 0 <=> \A p \in HiddenStates : v[p] = 0 \/ model.trans[p][q] = 0
<1> DEFINE H == HiddenStates
           f == [p \in H |-> v[p] * model.trans[p][q]]
<1>1. Onward(v)[q] = Total(f, H) /\ IsFiniteSet(H)
  BY OneClassLibrary DEF Onward, Mixed
<1>2. ASSUME NEW p \in H
      PROVE  f[p] \in Nat /\ (f[p] = 0 <=> v[p] = 0 \/ model.trans[p][q] = 0)
  <2> DEFINE x == v[p]
             y == model.trans[p][q]
  <2>1. x \in Nat /\ y \in Nat /\ f[p] = x * y
    BY DEF Typed
  <2> HIDE DEF x, y, f
  <2>2. x * y \in Nat /\ (x * y = 0 <=> x = 0 \/ y = 0)
    BY <2>1
  <2>3. QED BY <2>1, <2>2 DEF x, y
<1> HIDE DEF f, H
<1>3. Total(f, H) \in Nat /\ ((\A p \in H : f[p] = 0) => Total(f, H) = 0)
  BY <1>1, <1>2, SumType
<1>4. ASSUME NEW p \in H, f[p] # 0 PROVE Total(f, H) > 0
  <2>1. f[p] > 0 /\ \A o \in H : f[o] \in Nat
    BY <1>2, <1>4
  <2>2. QED BY <1>1, <2>1, TotalPositive
<1>5. QED BY <1>1, <1>2, <1>3, <1>4 DEF H

LEMMA PossibleAlike ==
  ASSUME Emitting(model), NEW r \in Seq(OneClass!Alphabet), NEW s \in Seq(OneClass!Alphabet),
         r # <<>>, s # <<>>, Len(r) = Len(s)
  PROVE  OneClass!Weight(r) = 0 <=> OneClass!Weight(s) = 0
<1> DEFINE A == OneClass!Alphabet
           H == HiddenStates
           n == Len(s)
           start == model.start
<1>1. n \in Nat /\ n > 0 /\ \A i \in 1 .. n : r[i] \in A /\ s[i] \in A
  <2> HIDE DEF A
  <2>1. r \in Seq(A) /\ s \in Seq(A) /\ s # <<>>
    BY DEF A
  <2>2. n \in Nat /\ r \in [1 .. n -> A] /\ s \in [1 .. n -> A]
    BY <2>1, LenProperties
  <2>3. n # 0
    BY <2>1, EmptySeq
  <2>4. QED BY <2>2, <2>3
<1>2. Typed(model) /\ start \in [H -> Nat] /\ IsFiniteSet(H)
  BY OneClassLibrary DEF Emitting, Typed
<1>3. PICK u : /\ \A i \in 1 .. n : u[i] \in [H -> Nat]
               /\ Forward(u, r, n)
               /\ OneClass!Weight(r) = Total(u[n], H)
  BY <1>2, WeightIs
<1>4. PICK v : /\ \A i \in 1 .. n : v[i] \in [H -> Nat]
               /\ Forward(v, s, n)
               /\ OneClass!Weight(s) = Total(v[n], H)
  BY <1>2, WeightIs
<1> HIDE DEF n, start
<1> DEFINE N == {i \in Nat : i + 1 <= n => SamePossible(u[i + 1], v[i + 1])}
<1>5. N \in SUBSET Nat /\ 0 \in N
  <2>1. 1 \in 1 .. n /\ 0 \in Nat /\ 0 + 1 = 1
    BY <1>1
  <2>2. u[1] = Enter(start, r[1]) /\ v[1] = Enter(start, s[1]) /\ r[1] \in A /\ s[1] \in A
    BY <1>1, <1>3, <1>4, <2>1 DEF Forward, start
  <2>3. SamePossible(u[1], v[1])
    BY <1>2, <2>2, EnterPossible DEF SamePossible
  <2>4. QED BY <2>1, <2>3
<1>6. ASSUME NEW i \in N PROVE i + 1 \in N
  <2> SUFFICES ASSUME (i + 1) + 1 <= n PROVE SamePossible(u[(i + 1) + 1], v[(i + 1) + 1])
    OBVIOUS
  <2> DEFINE j == (i + 1) + 1
             x == u[j - 1]
             y == v[j - 1]
  <2>1. j \in 1 .. n /\ j \in 2 .. n /\ j - 1 \in 1 .. n /\ j - 1 = i + 1 /\ i + 1 <= n
    BY <1>1
  <2>2. SamePossible(x, y)
    BY <2>1
  <2> HIDE DEF j
  <2>3. /\ x \in [H -> Nat] /\ u[j] = Enter(Onward(x), r[j]) /\ r[j] \in A
        /\ y \in [H -> Nat] /\ v[j] = Enter(Onward(y), s[j]) /\ s[j] \in A
    BY <1>1, <1>3, <1>4, <2>1 DEF Forward
  <2> HIDE DEF x, y
  <2>4. Onward(x) \in [H -> Nat] /\ Onward(y) \in [H -> Nat]
    BY <1>2, <2>3, VectorTypes
  <2>5. SamePossible(Onward(x), Onward(y))
    BY <1>2, <2>2, <2>3, OnwardPossible DEF SamePossible
  <2>6. SamePossible(u[j], v[j])
    BY <2>3, <2>4, <2>5, EnterPossible DEF SamePossible
  <2>7. QED BY <2>6 DEF j
<1> HIDE DEF N
<1>7. N = Nat
  BY <1>5, <1>6, NatSetInduction
<1> DEFINE x == u[n]
           y == v[n]
<1>8. x \in [H -> Nat] /\ y \in [H -> Nat] /\ SamePossible(x, y)
  <2>1. n - 1 \in N /\ (n - 1) + 1 = n /\ n \in 1 .. n
    BY <1>1, <1>7
  <2>2. QED BY <1>3, <1>4, <2>1 DEF N
<1> HIDE DEF x, y
<1>9. ASSUME NEW w \in [H -> Nat]
      PROVE  Total(w, H) = 0 <=> \A q \in H : w[q] = 0
  <2>1. Total(w, H) \in Nat /\ ((\A q \in H : w[q] = 0) => Total(w, H) = 0)
    BY <1>2, <1>9, SumType
  <2>2. ASSUME NEW q \in H, w[q] # 0 PROVE Total(w, H) > 0
    <3>1. w[q] > 0 /\ \A o \in H : w[o] \in Nat
      BY <1>9, <2>2
    <3>2. QED BY <1>2, <3>1, TotalPositive
  <2>3. QED BY <2>1, <2>2
<1>10. Total(x, H) = 0 <=> Total(y, H) = 0
  BY <1>8, <1>9 DEF SamePossible
<1>11. QED BY <1>3, <1>4, <1>10 DEF x, y

(* So is the sum over the windows of a sequence, if the model can always go on.*)
LEMMA ScorePositive ==
  ASSUME Stochastic(model), window \in Nat, NEW s \in Seq(OneClass!Alphabet)
  PROVE  OneClass!ScoreOf(s).total > 0
<1> DEFINE A == OneClass!Alphabet
           cut == OneClass!SlidingWindows(s)
           e == [i \in DOMAIN cut |-> OneClass!Weight(cut[i])]
           n == Len(cut)
           l == Len(s)
<1>1. CASE s = <<>>
  BY <1>1 DEF OneClass!ScoreOf, OneClass!Empty
<1>2. CASE s # <<>>
  <2>1. OneClass!ScoreOf(s).total = OneClass!SumOver(e)
    BY <1>2 DEF OneClass!ScoreOf
  <2>2. l \in Nat
    <3> HIDE DEF A
    <3>1. s \in Seq(A)
      BY DEF A
    <3>2. QED BY <3>1, LenProperties
  <2>3. /\ n \in Nat \ {0} /\ DOMAIN cut = 1 .. n
        /\ \A i \in 1 .. n : cut[i] \in Seq(A) /\ cut[i] # <<>>
    <3>1. CASE window # 0 /\ l >= window
      <4> HIDE DEF A
      <4>1. window \in Nat \ {0} /\ s \in Seq(A)
        BY <3>1 DEF A
      <4>2. /\ n \in Nat \ {0} /\ DOMAIN cut = 1 .. n
            /\ \A i \in 1 .. n : cut[i] \in Seq(A) /\ Len(cut[i]) = window
        BY <3>1, <4>1, CutIs
      <4> HIDE DEF cut, n
      <4>3. \A i \in 1 .. n : cut[i] # <<>>
        BY <4>1, <4>2, EmptySeq
      <4>4. QED BY <4>2, <4>3
    <3>2. CASE ~ (window # 0 /\ l >= window)
      <4>1. window = 0 \/ l <= window
        BY <2>2, <3>2
      <4>2. cut = <<s>>
        BY <4>1 DEF OneClass!SlidingWindows
      <4> HIDE DEF cut
      <4>3. n = 1 /\ DOMAIN cut = 1 .. 1 /\ cut[1] = s
        BY <4>2
      <4>4. QED BY <1>2, <4>3
    <3>3. QED BY <3>1, <3>2
  <2>4. \A i \in 1 .. n : e[i] \in Nat /\ e[i] > 0
    <3> SUFFICES ASSUME NEW i \in 1 .. n
                 PROVE  OneClass!Weight(cut[i]) \in Nat /\ OneClass!Weight(cut[i]) > 0
      BY <2>3
    <3> DEFINE w == cut[i]
    <3>1. w \in Seq(A) /\ w # <<>>
      BY <2>3
    <3> HIDE DEF w
    <3>2. OneClass!Weight(w) \in Nat /\ OneClass!Weight(w) > 0
      BY <3>1, WeightType, WeightPositive DEF Stochastic, Emitting
    <3>3. QED BY <3>2 DEF w
  <2>5. DOMAIN e = 1 .. n
    BY <2>3
  <2> HIDE DEF e, n
  <2>6. OneClass!SumOver(e) = Total(e, 1 .. n)
    BY <2>5, OneClassLibrary
  <2> DEFINE T == 1 .. n
  <2>7. IsFiniteSet(T)
    <3>1. 1 \in Int /\ n \in Int
      BY <2>3
    <3>2. QED BY <3>1, FS_Interval
  <2>8. 1 \in T
    BY <2>3
  <2> HIDE DEF T
  <2>9. \A i \in T : e[i] \in Nat /\ e[i] > 0
    BY <2>4 DEF T
  <2>10. Total(e, T) > 0
    BY <2>7, <2>8, <2>9, TotalPositive
  <2>11. QED BY <2>1, <2>6, <2>10 DEF T
<1>3. QED BY <1>1, <1>2

(* What Baum-Welch may end in, and what a model is after the smoothing.        *)
DistributionInv ==
  /\ fitting = "learned" =>
       /\ learned.start \in OneClass!Rows(HiddenStates)
       /\ learned.trans \in [HiddenStates -> AnyRow(HiddenStates)]
       /\ learned.emit \in [HiddenStates -> AnyRow(OneClass!Alphabet)]
  /\ model # OneClass!NoHmm =>
       /\ Emitting(model)
       /\ \A q \in HiddenStates : model.trans[q] \in AnyRow(HiddenStates)

(* A row that adds up to the whole.                                            *)
LEMMA RowIs ==
  ASSUME NEW S, NEW row \in OneClass!Rows(S)
  PROVE  row \in [S -> 0 .. Share] /\ Total(row, S) = Share
<1>1. row \in [S -> 0 .. Share] /\ OneClass!SumOver(row) = Share
  BY DEF OneClass!Rows
<1>2. DOMAIN row = S
  BY <1>1
<1>3. OneClass!SumOver(row) = Total(row, S)
  BY <1>2, OneClassLibrary
<1>4. QED BY <1>1, <1>3

(* Smoothed, any row adds up to the unit, and each of its entries is positive. *)
LEMMA SmoothedRow ==
  ASSUME NEW row \in AnyRow(OneClass!Alphabet)
  PROVE  LET r == [a \in OneClass!Alphabet |-> OneClass!Smoothed(row, a)]
         IN  /\ Total(r, OneClass!Alphabet) = OneClass!Unit
             /\ \A a \in OneClass!Alphabet : r[a] \in Nat /\ r[a] > 0
<1> DEFINE A == OneClass!Alphabet
           z == Smoothing + NSymbols
           k == IF row = OneClass!NoRow(A) THEN z ELSE NSymbols
           t == Total(row, A)
           r == [a \in A |-> OneClass!Smoothed(row, a)]
           f == [a \in A |-> row[a] * Smoothing]
           d == [a \in A |-> Share]
           g == [a \in A |-> row[a] * Smoothing + Share]
<1>1. /\ Share \in Nat \ {0} /\ Smoothing \in Nat \ {0} /\ NSymbols \in Nat \ {0}
      /\ IsFiniteSet(A) /\ Cardinality(A) = NSymbols
  BY Denominators
<1>2. z \in Nat \ {0} /\ k \in Nat \ {0}
  BY <1>1
<1>3. \A a \in A : row[a] \in Nat
  <2> HIDE DEF A
  <2>1. row \in [A -> Nat]
    BY AnyRowType DEF A
  <2>2. QED BY <2>1
<1>4. (k = z /\ t = 0) \/ (k = NSymbols /\ t = Share)
  <2>1. CASE row = OneClass!NoRow(A)
    <3>1. \A a \in A : row[a] = 0
      BY <2>1 DEF OneClass!NoRow
    <3> HIDE DEF A
    <3>2. Total(row, A) = 0
      BY <1>1, <1>3, <3>1, SumType
    <3>3. QED BY <2>1, <3>2
  <2>2. CASE row # OneClass!NoRow(A)
    <3>1. row \in OneClass!Rows(A)
      BY <2>2 DEF AnyRow
    <3>2. t = Share
      BY <3>1, RowIs
    <3>3. QED BY <2>2, <3>2
  <2>3. QED BY <2>1, <2>2
<1>5. ASSUME NEW a \in A
      PROVE  /\ r[a] = g[a] * k /\ g[a] = f[a] + d[a] /\ g[a] \in Int
             /\ f[a] \in Int /\ d[a] \in Int
             /\ f[a] = row[a] * Smoothing /\ d[a] = Share
             /\ r[a] \in Nat /\ r[a] > 0
  <2> DEFINE e == row[a]
  <2>1. e \in Nat
    BY <1>3
  <2>2. /\ r[a] = (e * Smoothing + Share) * k /\ g[a] = e * Smoothing + Share
        /\ f[a] = e * Smoothing /\ d[a] = Share
    BY DEF OneClass!Smoothed
  <2> HIDE DEF e, r, f, d, g, k
  <2> DEFINE y == e * Smoothing
  <2>3. y \in Nat
    BY <1>1, <2>1
  <2> HIDE DEF y
  <2> DEFINE x == y + Share
  <2>4. x \in Nat /\ x > 0 /\ x \in Int /\ y \in Int /\ Share \in Int
    BY <1>1, <2>3
  <2> HIDE DEF x
  <2>5. x * k \in Nat /\ x * k > 0
    BY <1>2, <2>4
  <2>6. QED BY <2>2, <2>4, <2>5 DEF x, y, e
<1> HIDE DEF A, r, f, d, g, k, t, z
<1>6. Total(g, A) = Total(f, A) + Total(d, A)
  BY <1>1, <1>5, TotalPlus
<1>7. Total(f, A) = t * Smoothing
  <2>1. Smoothing \in Int /\ \A a \in A : row[a] \in Int /\ f[a] = row[a] * Smoothing
    BY <1>1, <1>3, <1>5
  <2>2. QED BY <1>1, <2>1, TotalTimes DEF t
<1>8. Total(d, A) = NSymbols * Share
  <2>1. Share \in Int /\ \A a \in A : d[a] = Share
    BY <1>1, <1>5
  <2>2. Total(d, A) = Cardinality(A) * Share
    BY <1>1, <2>1, TotalOfSame
  <2>3. QED BY <1>1, <2>2
<1>9. Total(r, A) = Total(g, A) * k
  <2>1. k \in Int /\ \A a \in A : g[a] \in Int /\ r[a] = g[a] * k
    BY <1>2, <1>5
  <2>2. QED BY <1>1, <2>1, TotalTimes
<1>10. OneClass!Unit = (Share * z) * NSymbols
  BY Denominators DEF z
<1>11. CASE k = z /\ t = 0
  <2>1. Total(g, A) = NSymbols * Share
    BY <1>1, <1>6, <1>7, <1>8, <1>11
  <2>2. (NSymbols * Share) * z = (Share * z) * NSymbols
    BY <1>1, <1>2
  <2>3. Total(r, A) = OneClass!Unit
    BY <1>9, <1>10, <1>11, <2>1, <2>2
  <2>4. QED BY <1>5, <2>3 DEF A, r
<1>12. CASE k = NSymbols /\ t = Share
  <2>1. Share * Smoothing + NSymbols * Share = Share * z
    BY <1>1 DEF z
  <2>2. Total(g, A) = Share * z
    BY <1>6, <1>7, <1>8, <1>12, <2>1
  <2>3. Total(r, A) = OneClass!Unit
    BY <1>9, <1>10, <1>12, <2>2
  <2>4. QED BY <1>5, <2>3 DEF A, r
<1>13. QED BY <1>4, <1>11, <1>12

(* Training ends in distributions, and the smoothing makes them positive.      *)
LEMMA DistributionStep ==
  OneClassInv /\ DistributionInv /\ [OneClass!Next]_oneClassVars => DistributionInv'
<1> SUFFICES ASSUME OneClassInv, DistributionInv, [OneClass!Next]_oneClassVars
             PROVE  DistributionInv'
  OBVIOUS
<1> DEFINE H == HiddenStates
           A == OneClass!Alphabet
<1>1. ASSUME NEW sequences \in Trainings, OneClass!Fit(sequences) PROVE DistributionInv'
  <2>1. model' = model /\ fitting' = "cut"
    BY <1>1 DEF OneClass!Fit
  <2>2. QED BY <2>1 DEF DistributionInv, Emitting, Typed
<1>2. CASE OneClass!Sample
  <2>1. model' = model /\ fitting' = "sampled"
    BY <1>2, Zenon DEF OneClass!Sample
  <2>2. QED BY <2>1 DEF DistributionInv, Emitting, Typed
<1>3. CASE OneClass!BaumWelch
  <2>1. model' = model
    BY <1>3 DEF OneClass!BaumWelch
  <2>2. /\ learned'.start \in OneClass!Rows(H)
        /\ learned'.trans \in [H -> AnyRow(H)]
        /\ learned'.emit \in [H -> AnyRow(A)]
    BY <1>3, LearnedRows
  <2>3. QED BY <2>1, <2>2 DEF DistributionInv, Emitting, Typed, AnyRow
<1>4. CASE OneClass!Smooth
  <2>1. fitting = "learned" /\ fitting' = "idle"
    BY <1>4 DEF OneClass!Smooth
  <2>2. model' = [learned EXCEPT !.emit =
                    [q \in H |-> [a \in A |-> OneClass!Smoothed(learned.emit[q], a)]]]
    BY <1>4 DEF OneClass!Smooth
  <2>3. learned = [start |-> learned.start, trans |-> learned.trans, emit |-> learned.emit]
    BY <2>1 DEF OneClassInv
  <2>4. /\ model'.start = learned.start /\ model'.trans = learned.trans
        /\ model'.emit = [q \in H |-> [a \in A |-> OneClass!Smoothed(learned.emit[q], a)]]
    BY <2>2, <2>3
  <2>5. Typed(model)'
    <3>1. OneClassInv'
      BY OneClassStep
    <3>2. model'.emit # <<>>
      <4>1. PICK row : row \in OneClass!Rows(H)
        BY <2>1 DEF DistributionInv
      <4>2. Total(row, H) = Share /\ row \in [H -> 0 .. Share] /\ Share # 0
        BY <4>1, RowIs, Denominators
      <4>3. H # {}
        <5>1. CASE H = {}
          <6>1. Total(row, H) = 0
            BY <5>1, TotalEmpty
          <6>2. QED BY <4>2, <6>1
        <5>2. QED BY <5>1
      <4>4. QED BY <2>4, <4>3
    <3>3. model' # OneClass!NoHmm
      BY <3>2 DEF OneClass!NoHmm
    <3>4. QED BY <3>1, <3>3 DEF OneClassInv
  <2>6. Total(model'.start, H) = Share
    BY <2>1, <2>4, RowIs DEF DistributionInv
  <2>7. ASSUME NEW q \in H
        PROVE  /\ model'.trans[q] \in AnyRow(H)
               /\ Total(model'.emit[q], A) = OneClass!Unit
               /\ \A a \in A : model'.emit[q][a] > 0
    <3>1. learned.trans[q] \in AnyRow(H) /\ learned.emit[q] \in AnyRow(A)
      BY <2>1 DEF DistributionInv
    <3> DEFINE row == learned.emit[q]
               r == [a \in A |-> OneClass!Smoothed(row, a)]
    <3>2. model'.trans[q] \in AnyRow(H)
      BY <2>4, <3>1
    <3>3. model'.emit[q] = r
      BY <2>4
    <3> HIDE DEF row
    <3>4. Total(r, A) = OneClass!Unit /\ \A a \in A : r[a] \in Nat /\ r[a] > 0
      BY <3>1, SmoothedRow DEF row
    <3> HIDE DEF r
    <3>5. QED BY <3>2, <3>3, <3>4
  <2>8. Emitting(model)'
    BY <2>5, <2>6, <2>7 DEF Emitting
  <2>9. (\A q \in H : model.trans[q] \in AnyRow(H))'
    BY <2>7 DEF AnyRow
  <2>10. QED BY <2>1, <2>8, <2>9 DEF DistributionInv
<1>5. ASSUME NEW s \in Asked, OneClass!Score(s) PROVE DistributionInv'
  <2>1. UNCHANGED <<fitting, learned, model>>
    BY <1>5 DEF OneClass!Score
  <2>2. QED BY <2>1 DEF DistributionInv, Emitting, Typed
<1>6. CASE UNCHANGED oneClassVars
  <2>1. UNCHANGED <<fitting, learned, model>>
    BY <1>6 DEF oneClassVars
  <2>2. QED BY <2>1 DEF DistributionInv, Emitting, Typed
<1>7. QED BY <1>1, <1>2, <1>3, <1>4, <1>5, <1>6 DEF OneClass!Next

(* So it always holds.                                                         *)
LEMMA DistributionInvariant == DetectorSpec => []DistributionInv
<1>1. DetectorInit => DistributionInv
  BY DEF DetectorInit, OneClass!Init, DistributionInv
<1>2. OneClassInv /\ DistributionInv /\ [DetectorNext]_detectorVars => DistributionInv'
  <2>1. [DetectorNext]_detectorVars => [OneClass!Next]_oneClassVars
    BY DEF DetectorNext, Training, Scoring, Fit, Fuse, detectorVars
  <2>2. QED BY <2>1, DistributionStep
<1>3. QED BY <1>1, <1>2, OneClassInvariant, PTL DEF DetectorSpec, detectorVars

(* A model without a dead end is stochastic throughout.                        *)
LEMMA NoDeadEnd ==
  ASSUME DistributionInv, model # OneClass!NoHmm, OneClass!DeadEnds = {}
  PROVE  Stochastic(model)
<1>1. ASSUME NEW q \in HiddenStates PROVE Total(model.trans[q], HiddenStates) = Share
  <2>1. model.trans[q] \in OneClass!Rows(HiddenStates)
    BY DEF DistributionInv, OneClass!DeadEnds, AnyRow
  <2>2. QED BY <2>1, RowIs
<1>2. QED BY <1>1 DEF Stochastic, DistributionInv

(* The sequences of any one length weigh the whole together, in a model that   *)
(* can go on from every state: one symbol's is the product of the              *)
(* denominators, in any model, and a symbol more multiplies it by that.        *)
THEOREM WholeAtAnyLength ==
  DetectorSpec => [](model # OneClass!NoHmm =>
                       /\ Mass(1) = Share * OneClass!Unit
                       /\ OneClass!DeadEnds = {} =>
                            \A n \in Nat \ {0} : Mass(n + 1) = Mass(n) * (Share * OneClass!Unit))
<1>1. DistributionInv =>
        (model # OneClass!NoHmm =>
           /\ Mass(1) = Share * OneClass!Unit
           /\ OneClass!DeadEnds = {} =>
                \A n \in Nat \ {0} : Mass(n + 1) = Mass(n) * (Share * OneClass!Unit))
  BY MassOfOne, MassGrows, NoDeadEnd DEF DistributionInv
<1>2. QED BY <1>1, DistributionInvariant, PTL

(* A smoothed model weighs all symbols to the whole, and sequences too unless  *)
(* it has a dead end; that apart, nothing is impossible, and never for the     *)
(* want of a symbol, whatever of the alphabet was missing from its windows.    *)
THEOREM SmoothedWhole == DetectorSpec => []Distribution
<1>1. OneClassInv /\ DistributionInv => Distribution
  <2> SUFFICES ASSUME OneClassInv, DistributionInv PROVE OneClass!Distribution
    BY DEF Distribution
  <2>1. window \in Nat /\ Asked \subseteq Seq(OneClass!Alphabet)
    BY PartAssumptions DEF OneClassInv, OneClass!ScoreAssumption
  <2>2. scored.total = 0 => OneClass!DeadEnds # {}
    <3>1. CASE scored = OneClass!Empty
      BY <3>1 DEF OneClass!Empty
    <3>2. ASSUME scored # OneClass!Empty, OneClass!DeadEnds = {} PROVE scored.total > 0
      <4>1. PICK s \in Asked : scored = OneClass!ScoreOf(s)
        BY <3>2 DEF OneClassInv
      <4>2. s \in Seq(OneClass!Alphabet) /\ Stochastic(model)
        BY <2>1, <3>2, NoDeadEnd DEF OneClassInv
      <4>3. QED BY <2>1, <4>1, <4>2, ScorePositive
    <3>3. QED BY <3>1, <3>2
  <2> DEFINE all(n) == OneClass!SumOver([s \in [1 .. n -> OneClass!Alphabet] |->
                                           OneClass!Weight(s)])
  <2>3. ASSUME NEW n PROVE all(n) = Mass(n)
    <3> DEFINE f == Weights(n)
    <3>1. f = [s \in [1 .. n -> OneClass!Alphabet] |-> OneClass!Weight(s)]
      BY DEF Weights, OfLength
    <3>2. DOMAIN f = OfLength(n)
      BY DEF Weights
    <3> HIDE DEF f
    <3>3. QED BY <3>1, <3>2, OneClassLibrary DEF Mass, f
  <2>4. ASSUME model # OneClass!NoHmm
        PROVE  /\ all(1) = Share * OneClass!Unit
               /\ OneClass!DeadEnds = {} => all(2) = all(1) * (Share * OneClass!Unit)
    <3>1. Mass(1) = Share * OneClass!Unit
      BY <2>4, MassOfOne DEF DistributionInv
    <3>2. OneClass!DeadEnds = {} => Mass(2) = Mass(1) * (Share * OneClass!Unit)
      <4> DEFINE n == 1
      <4>1. n \in Nat \ {0} /\ n + 1 = 2
        OBVIOUS
      <4> HIDE DEF n
      <4>2. OneClass!DeadEnds = {} => Mass(n + 1) = Mass(n) * (Share * OneClass!Unit)
        BY <2>4, <4>1, NoDeadEnd, MassGrows
      <4>3. QED BY <4>1, <4>2 DEF n
    <3> HIDE DEF all
    <3>3. QED BY <2>3, <3>1, <3>2
  <2>5. ASSUME model # OneClass!NoHmm, NEW r \in Asked \ {<<>>}, NEW s \in Asked \ {<<>>},
               Len(r) = Len(s)
        PROVE  OneClass!Weight(r) = 0 <=> OneClass!Weight(s) = 0
    <3>1. Emitting(model)
      BY <2>5 DEF DistributionInv
    <3>2. r \in Seq(OneClass!Alphabet) /\ s \in Seq(OneClass!Alphabet) /\ r # <<>> /\ s # <<>>
      BY <2>1
    <3>3. QED BY <2>5, <3>1, <3>2, PossibleAlike
  <2> HIDE DEF all
  <2>6. (model # OneClass!NoHmm /\ scored = OneClass!Empty) =>
           /\ all(1) = Share * OneClass!Unit
           /\ OneClass!DeadEnds = {} => all(2) = all(1) * (Share * OneClass!Unit)
           /\ \A r, s \in Asked \ {<<>>} :
                Len(r) = Len(s) => (OneClass!Weight(r) = 0 <=> OneClass!Weight(s) = 0)
    BY <2>4, <2>5
  <2>7. QED BY <2>2, <2>6 DEF OneClass!Distribution, all
<1>2. QED BY <1>1, OneClassInvariant, DistributionInvariant, PTL
==============================================================================
