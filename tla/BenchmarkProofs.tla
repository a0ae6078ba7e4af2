--------------------------- MODULE BenchmarkProofs ---------------------------
(* Machine-checked proofs about Benchmark, for every number of variants, every *)
(* list of flows and every score.                                              *)
EXTENDS Benchmark, FiniteSetTheorems, SequenceTheorems, WellFoundedInduction, TLAPS

------------------------------------------------------------------------------
(* Sums over finite sets.  MapThenSumSet is defined by a recursive function on *)
(* the subsets of a set; that there is one is proved first.                    *)

(* Every non-empty set of naturals has a least element.                        *)
LEMMA LeastExists ==
  ASSUME NEW S \in SUBSET Nat, S # {}
  PROVE  \E n \in S : \A m \in S : n <= m
<1> DEFINE R == OpToRel(<, Nat)
<1>1. \A x, y \in Nat : x < y => <<x, y>> \in R
  BY DEF OpToRel
<1>2. IsWellFoundedOn(R, Nat)
  BY NatLessThanWellFounded
<1> HIDE DEF R
<1>3. PICK n \in S : \A m \in S : ~ (<<m, n>> \in R)
  BY <1>2, WFMin
<1>4. ASSUME NEW m \in S PROVE n <= m
  <2>1. ~ (m < n)
    BY <1>1, <1>3
  <2>2. m \in Nat /\ n \in Nat
    OBVIOUS
  <2>3. QED BY <2>1, <2>2
<1>5. QED BY <1>4

(* Induction, for a set of numbers.                                            *)
LEMMA NatSetInduction ==
  ASSUME NEW P \in SUBSET Nat, 0 \in P, \A n \in P : n + 1 \in P
  PROVE  P = Nat
<1> SUFFICES ASSUME Nat \ P # {} PROVE FALSE
  OBVIOUS
<1>1. PICK n \in Nat \ P : \A m \in Nat \ P : n <= m
  BY LeastExists
<1>2. n # 0 /\ n - 1 \in Nat
  BY <1>1
<1>3. n - 1 \in P
  BY <1>1, <1>2
<1>4. (n - 1) + 1 \in P
  BY <1>3
<1>5. QED BY <1>1, <1>4

(* The element a sum takes out of a set first.                                 *)
First(s) == CHOOSE x \in s : TRUE

(* Without its first element a finite set is smaller by one.                   *)
LEMMA Rest ==
  ASSUME NEW s, IsFiniteSet(s), s # {}
  PROVE  /\ First(s) \in s /\ IsFiniteSet(s \ {First(s)})
         /\ Cardinality(s \ {First(s)}) = Cardinality(s) - 1
         /\ Cardinality(s) \in Nat \ {0}
<1>1. First(s) \in s
  BY DEF First
<1>2. Cardinality(s) \in Nat /\ Cardinality(s) # 0
  BY FS_CardinalityType, FS_EmptySet
<1>3. QED BY <1>1, <1>2, FS_RemoveElement

(* Induction over the subsets of a finite set, in the order a sum takes them.  *)
LEMMA SubsetInduction ==
  ASSUME NEW S, IsFiniteSet(S), NEW P \in SUBSET (SUBSET S), {} \in P,
         \A s \in SUBSET S : s # {} /\ s \ {First(s)} \in P => s \in P
  PROVE  P = SUBSET S
<1> DEFINE N == {n \in Nat : \A s \in SUBSET S : Cardinality(s) <= n => s \in P}
<1>1. \A s \in SUBSET S : IsFiniteSet(s) /\ Cardinality(s) \in Nat
  BY FS_Subset, FS_CardinalityType
<1>2. 0 \in N
  <2> SUFFICES ASSUME NEW s \in SUBSET S, Cardinality(s) <= 0 PROVE s \in P
    OBVIOUS
  <2>1. Cardinality(s) = 0
    BY <1>1
  <2>2. s = {}
    BY <1>1, <2>1, FS_EmptySet
  <2>3. QED BY <2>2
<1>3. ASSUME NEW n \in N PROVE n + 1 \in N
  <2>1. n \in Nat /\ \A s \in SUBSET S : Cardinality(s) <= n => s \in P
    OBVIOUS
  <2> SUFFICES ASSUME NEW s \in SUBSET S, Cardinality(s) <= n + 1 PROVE s \in P
    BY <2>1
  <2> SUFFICES ASSUME s # {} PROVE s \in P
    OBVIOUS
  <2>2. /\ s \ {First(s)} \in SUBSET S
        /\ Cardinality(s \ {First(s)}) = Cardinality(s) - 1
    BY <1>1, Rest
  <2>3. Cardinality(s \ {First(s)}) <= n
    BY <1>1, <2>1, <2>2
  <2>4. QED BY <2>1, <2>2, <2>3
<1>4. N = Nat
  <2>1. N \in SUBSET Nat
    OBVIOUS
  <2> HIDE DEF N
  <2>2. QED BY <1>2, <1>3, <2>1, NatSetInduction
<1>5. QED BY <1>1, <1>4

(* A function on a family of finite sets that sums up f.                       *)
SumsUp(f, D, h) ==
  h = [s \in D |-> IF s = {} THEN 0 ELSE f[First(s)] + h[s \ {First(s)}]]

(* There is one on all subsets of a finite set.                                *)
LEMMA SumsExist ==
  ASSUME NEW f, NEW S, IsFiniteSet(S)
  PROVE  \E h : SumsUp(f, SUBSET S, h)
<1> DEFINE Small(n) == {s \in SUBSET S : Cardinality(s) <= n}
           N == {n \in Nat : \E h : SumsUp(f, Small(n), h)}
<1>1. \A s \in SUBSET S : IsFiniteSet(s) /\ Cardinality(s) \in Nat
  BY FS_Subset, FS_CardinalityType
<1>2. 0 \in N
  <2> DEFINE h == [s \in Small(0) |-> 0]
  <2>1. \A s \in Small(0) : s = {}
    <3> SUFFICES ASSUME NEW s \in Small(0) PROVE s = {}
      OBVIOUS
    <3>1. IsFiniteSet(s) /\ Cardinality(s) = 0
      BY <1>1
    <3>2. QED BY <3>1, FS_EmptySet
  <2>2. SumsUp(f, Small(0), h)
    BY <2>1 DEF SumsUp
  <2>3. QED BY <2>2
<1>3. ASSUME NEW n \in N PROVE n + 1 \in N
  <2>1. PICK h : SumsUp(f, Small(n), h)
    OBVIOUS
  <2> DEFINE g == [s \in Small(n + 1) |->
                     IF s = {} THEN 0 ELSE f[First(s)] + h[s \ {First(s)}]]
  <2>2. ASSUME NEW s \in Small(n + 1), s # {}
        PROVE  g[s \ {First(s)}] = h[s \ {First(s)}]
    <3> DEFINE t == s \ {First(s)}
    <3>1. t \in Small(n) /\ t \in Small(n + 1)
      BY <1>1, <2>2, Rest
    <3>2. h[t] = IF t = {} THEN 0 ELSE f[First(t)] + h[t \ {First(t)}]
      BY <2>1, <3>1 DEF SumsUp
    <3>3. QED BY <3>1, <3>2
  <2>3. SumsUp(f, Small(n + 1), g)
    BY <2>2 DEF SumsUp
  <2>4. \E k : SumsUp(f, Small(n + 1), k)
    <3> HIDE DEF g
    <3>1. QED BY <2>3
  <2>5. n \in Nat /\ n + 1 \in Nat
    OBVIOUS
  <2> HIDE DEF Small, g
  <2>6. QED BY <2>4, <2>5
<1>4. N = Nat
  <2>1. N \in SUBSET Nat
    OBVIOUS
  <2> HIDE DEF N
  <2>2. QED BY <1>2, <1>3, <2>1, NatSetInduction
<1>5. Cardinality(S) \in Nat /\ Small(Cardinality(S)) = SUBSET S
  BY FS_Subset, FS_CardinalityType
<1>6. QED BY <1>4, <1>5

(* The library's sum over a finite set is made in this way.                    *)
Total(f, S) == MapThenSumSet(LAMBDA x : f[x], S)

LEMMA SumIs ==
  ASSUME NEW f, NEW S, IsFiniteSet(S)
  PROVE  \E h : SumsUp(f, SUBSET S, h) /\ Total(f, S) = h[S]
<1> DEFINE h == CHOOSE h : SumsUp(f, SUBSET S, h)
<1>1. SumsUp(f, SUBSET S, h)
  BY SumsExist
<1>2. Total(f, S) = h[S]
  BY DEF Total, MapThenSumSet, MapThenFoldSet, SumsUp, First
<1>3. QED BY <1>1, <1>2

(* A sum of naturals is a natural; one of zeroes is zero.                      *)
LEMMA SumType ==
  ASSUME NEW S, IsFiniteSet(S), NEW f, \A x \in S : f[x] \in Nat
  PROVE  /\ Total(f, S) \in Nat
         /\ (\A x \in S : f[x] = 0) => Total(f, S) = 0
<1>1. PICK h : SumsUp(f, SUBSET S, h) /\ Total(f, S) = h[S]
  BY SumIs
<1> DEFINE P == {s \in SUBSET S : h[s] \in Nat /\ ((\A x \in S : f[x] = 0) => h[s] = 0)}
<1>2. {} \in P
  BY <1>1 DEF SumsUp
<1>3. \A s \in SUBSET S : s # {} /\ s \ {First(s)} \in P => s \in P
  <2> SUFFICES ASSUME NEW s \in SUBSET S, s # {}, s \ {First(s)} \in P PROVE s \in P
    OBVIOUS
  <2>1. First(s) \in S
    BY DEF First
  <2>2. h[s] = f[First(s)] + h[s \ {First(s)}]
    BY <1>1 DEF SumsUp
  <2>3. QED BY <2>1, <2>2
<1>4. P \in SUBSET (SUBSET S)
  OBVIOUS
<1> HIDE DEF P
<1>5. P = SUBSET S
  BY <1>2, <1>3, <1>4, SubsetInduction
<1>6. S \in P
  BY <1>5
<1>7. QED BY <1>1, <1>6 DEF P

(* One more of anything makes the sum larger by one.                           *)
LEMMA SumCounts ==
  ASSUME NEW S, IsFiniteSet(S), NEW f \in [S -> Nat], NEW x \in S
  PROVE  Total([f EXCEPT ![x] = @ + 1], S) = Total(f, S) + 1
<1> DEFINE e == [f EXCEPT ![x] = @ + 1]
<1>1. PICK h : SumsUp(f, SUBSET S, h) /\ Total(f, S) = h[S]
  BY SumIs
<1>2. PICK g : SumsUp(e, SUBSET S, g) /\ Total(e, S) = g[S]
  BY SumIs
<1> DEFINE P == {s \in SUBSET S : h[s] \in Nat /\ g[s] = IF x \in s THEN h[s] + 1 ELSE h[s]}
<1>3. {} \in P
  BY <1>1, <1>2 DEF SumsUp
<1>4. \A s \in SUBSET S : s # {} /\ s \ {First(s)} \in P => s \in P
  <2> SUFFICES ASSUME NEW s \in SUBSET S, s # {}, s \ {First(s)} \in P PROVE s \in P
    OBVIOUS
  <2> DEFINE y == First(s)
             t == s \ {y}
  <2>1. y \in S /\ y \in s
    BY DEF First
  <2>2. h[s] = f[y] + h[t] /\ g[s] = e[y] + g[t]
    BY <1>1, <1>2 DEF SumsUp
  <2>3. h[t] \in Nat /\ g[t] = IF x \in t THEN h[t] + 1 ELSE h[t]
    OBVIOUS
  <2>4. f[y] \in Nat /\ e[y] = IF y = x THEN f[y] + 1 ELSE f[y]
    BY <2>1
  <2> HIDE DEF y, e
  <2>5. x \in t <=> x \in s /\ x # y
    OBVIOUS
  <2>6. CASE x = y
    BY <2>1, <2>2, <2>3, <2>4, <2>5, <2>6
  <2>7. CASE x # y
    BY <2>1, <2>2, <2>3, <2>4, <2>5, <2>7
  <2>8. QED BY <2>6, <2>7
<1>5. P \in SUBSET (SUBSET S)
  OBVIOUS
<1> HIDE DEF P
<1>6. P = SUBSET S
  BY <1>3, <1>4, <1>5, SubsetInduction
<1>7. S \in P
  BY <1>6
<1>8. QED BY <1>1, <1>2, <1>7 DEF P

(* On a part of a set the sums are those of the part.                          *)
LEMMA SumPart ==
  ASSUME NEW f, NEW S, IsFiniteSet(S), NEW h, SumsUp(f, SUBSET S, h), NEW T \in SUBSET S
  PROVE  h[T] = Total(f, T)
<1>1. IsFiniteSet(T)
  BY FS_Subset
<1>2. PICK g : SumsUp(f, SUBSET T, g) /\ Total(f, T) = g[T]
  BY <1>1, SumIs
<1> DEFINE P == {s \in SUBSET T : g[s] = h[s]}
<1>3. {} \in P
  BY <1>2 DEF SumsUp
<1>4. \A s \in SUBSET T : s # {} /\ s \ {First(s)} \in P => s \in P
  <2> SUFFICES ASSUME NEW s \in SUBSET T, s # {}, s \ {First(s)} \in P PROVE s \in P
    OBVIOUS
  <2>1. g[s] = f[First(s)] + g[s \ {First(s)}] /\ h[s] = f[First(s)] + h[s \ {First(s)}]
    BY <1>2 DEF SumsUp
  <2>2. QED BY <2>1
<1>5. P \in SUBSET (SUBSET T)
  OBVIOUS
<1> HIDE DEF P
<1>6. P = SUBSET T
  BY <1>1, <1>3, <1>4, <1>5, SubsetInduction
<1>7. T \in P
  BY <1>6
<1>8. QED BY <1>2, <1>7 DEF P

(* Any element can be taken out first.                                         *)
LEMMA SumWithout ==
  ASSUME NEW S, IsFiniteSet(S), NEW f, \A y \in S : f[y] \in Nat, NEW x \in S
  PROVE  Total(f, S) = f[x] + Total(f, S \ {x})
<1>1. PICK h : SumsUp(f, SUBSET S, h) /\ Total(f, S) = h[S]
  BY SumIs
<1> DEFINE N == {n \in Nat : \A s \in SUBSET S : Cardinality(s) <= n =>
                               \A y \in s : h[s] = f[y] + h[s \ {y}]}
<1>2. \A s \in SUBSET S : IsFiniteSet(s) /\ Cardinality(s) \in Nat /\ h[s] \in Nat
  <2> SUFFICES ASSUME NEW s \in SUBSET S
               PROVE  IsFiniteSet(s) /\ Cardinality(s) \in Nat /\ h[s] \in Nat
    OBVIOUS
  <2>1. IsFiniteSet(s)
    BY FS_Subset
  <2>2. Cardinality(s) \in Nat
    BY <2>1, FS_CardinalityType
  <2>3. SumsUp(f, SUBSET S, h)
    BY <1>1
  <2>4. h[s] = Total(f, s)
    BY <2>3, SumPart, Zenon
  <2>5. \A y \in s : f[y] \in Nat
    OBVIOUS
  <2>6. Total(f, s) \in Nat
    BY <2>1, <2>5, SumType
  <2>7. QED BY <2>1, <2>2, <2>4, <2>6
<1>3. 0 \in N
  <2> SUFFICES ASSUME NEW s \in SUBSET S, Cardinality(s) <= 0, NEW y \in s PROVE FALSE
    OBVIOUS
  <2>1. Cardinality(s) = 0
    BY <1>2
  <2>2. QED BY <1>2, <2>1, FS_EmptySet
<1>4. ASSUME NEW n \in N PROVE n + 1 \in N
  <2>1. n \in Nat /\ \A s \in SUBSET S : Cardinality(s) <= n => \A y \in s : h[s] = f[y] + h[s \ {y}]
    OBVIOUS
  <2> SUFFICES ASSUME NEW s \in SUBSET S, Cardinality(s) <= n + 1, NEW y \in s
               PROVE  h[s] = f[y] + h[s \ {y}]
    BY <2>1
  <2> DEFINE z == First(s)
  <2>2. z \in s /\ h[s] = f[z] + h[s \ {z}]
    BY <1>1 DEF SumsUp, First
  <2> HIDE DEF z
  <2>3. CASE z = y
    BY <2>2, <2>3
  <2>4. CASE z # y
    <3>1. \A v \in s : s \ {v} \in SUBSET S /\ Cardinality(s \ {v}) <= n
      <4> SUFFICES ASSUME NEW v \in s PROVE Cardinality(s \ {v}) <= n
        OBVIOUS
      <4>1. Cardinality(s \ {v}) = Cardinality(s) - 1
        BY <1>2, FS_RemoveElement
      <4>2. QED BY <1>2, <2>1, <4>1
    <3>2. h[s \ {z}] = f[y] + h[(s \ {z}) \ {y}]
      BY <2>1, <2>2, <2>4, <3>1
    <3>3. h[s \ {y}] = f[z] + h[(s \ {y}) \ {z}]
      BY <2>1, <2>2, <2>4, <3>1
    <3>4. (s \ {y}) \ {z} = (s \ {z}) \ {y} /\ (s \ {y}) \ {z} \in SUBSET S
      OBVIOUS
    <3>5. f[y] \in Nat /\ f[z] \in Nat /\ h[(s \ {y}) \ {z}] \in Nat
      BY <1>2, <2>2, <3>4
    <3> DEFINE rest == h[(s \ {y}) \ {z}]
    <3>6. h[s \ {z}] = f[y] + rest /\ h[s \ {y}] = f[z] + rest
      BY <3>2, <3>3, <3>4
    <3>7. rest \in Nat
      BY <3>5
    <3> HIDE DEF rest
    <3>8. QED BY <2>2, <3>5, <3>6, <3>7
  <2>5. QED BY <2>3, <2>4
<1>5. N = Nat
  <2>1. N \in SUBSET Nat
    OBVIOUS
  <2> HIDE DEF N
  <2>2. QED BY <1>3, <1>4, <2>1, NatSetInduction
<1>6. h[S] = f[x] + h[S \ {x}]
  <2>1. Cardinality(S) \in N
    BY <1>2, <1>5
  <2>2. QED BY <1>2, <2>1
<1>7. h[S \ {x}] = Total(f, S \ {x})
  <2> DEFINE T == S \ {x}
  <2>1. T \in SUBSET S
    OBVIOUS
  <2> HIDE DEF T
  <2>2. SumsUp(f, SUBSET S, h)
    BY <1>1
  <2>3. h[T] = Total(f, T)
    BY <2>1, <2>2, SumPart, Zenon
  <2>4. QED BY <2>3 DEF T
<1>8. QED BY <1>1, <1>6, <1>7

(* A sum depends only on the summands.                                         *)
LEMMA SumSame ==
  ASSUME NEW S, IsFiniteSet(S), NEW f, NEW g, \A x \in S : f[x] = g[x]
  PROVE  Total(f, S) = Total(g, S)
<1>1. PICK h : SumsUp(f, SUBSET S, h) /\ Total(f, S) = h[S]
  BY SumIs
<1>2. PICK k : SumsUp(g, SUBSET S, k) /\ Total(g, S) = k[S]
  BY SumIs
<1> DEFINE P == {s \in SUBSET S : h[s] = k[s]}
<1>3. {} \in P
  BY <1>1, <1>2 DEF SumsUp
<1>4. ASSUME NEW s \in SUBSET S, s # {}, s \ {First(s)} \in P PROVE s \in P
  <2>1. First(s) \in S
    BY <1>4 DEF First
  <2>2. h[s] = f[First(s)] + h[s \ {First(s)}] /\ k[s] = g[First(s)] + k[s \ {First(s)}]
    BY <1>1, <1>2, <1>4 DEF SumsUp
  <2>3. QED BY <1>4, <2>1, <2>2
<1>5. P = SUBSET S
  <2>1. P \in SUBSET (SUBSET S)
    OBVIOUS
  <2> HIDE DEF P
  <2>2. QED BY <1>3, <1>4, <2>1, SubsetInduction
<1>6. QED BY <1>1, <1>2, <1>5

------------------------------------------------------------------------------
(* How many scores of a sample are up to a rank.                               *)

LEMMA UptoIs ==
  ASSUME NEW f \in [Scores -> Nat], NEW s \in 0 .. Top
  PROVE  /\ Upto(f, s) \in Nat /\ Upto(f, 0) = 0
         /\ s < Top => Upto(f, s + 1) = Upto(f, s) + f[s + 1]
<1>1. \A r : Upto(f, r) = Total(f, 1 .. r)
  BY DEF Upto, Total
<1>2. Top \in Nat /\ s \in Nat
  BY MetricsAssumption
<1>3. \A r \in 0 .. Top : IsFiniteSet(1 .. r) /\ \A y \in 1 .. r : f[y] \in Nat
  <2> SUFFICES ASSUME NEW r \in 0 .. Top PROVE IsFiniteSet(1 .. r) /\ \A y \in 1 .. r : f[y] \in Nat
    OBVIOUS
  <2>1. IsFiniteSet(1 .. r)
    BY <1>2, FS_Interval
  <2>2. \A y \in 1 .. r : y \in Scores
    BY <1>2 DEF Scores
  <2>3. QED BY <2>1, <2>2
<1>4. Upto(f, s) \in Nat
  BY <1>1, <1>3, SumType
<1>5. Upto(f, 0) = 0
  <2>1. 0 \in 0 .. Top /\ \A y \in 1 .. 0 : f[y] = 0
    BY <1>2
  <2>2. Total(f, 1 .. 0) = 0
    BY <1>3, <2>1, SumType
  <2>3. QED BY <1>1, <2>2
<1>6. ASSUME s < Top PROVE Upto(f, s + 1) = Upto(f, s) + f[s + 1]
  <2>1. s + 1 \in 0 .. Top /\ s + 1 \in 1 .. (s + 1) /\ (1 .. (s + 1)) \ {s + 1} = 1 .. s
    BY <1>2, <1>6
  <2>2. Total(f, 1 .. (s + 1)) = f[s + 1] + Total(f, 1 .. s)
    BY <1>3, <2>1, SumWithout
  <2>3. f[s + 1] \in Nat
    BY <1>3, <2>1
  <2>4. QED BY <1>1, <1>4, <2>2, <2>3
<1>7. QED BY <1>4, <1>5, <1>6

(* It grows with the rank, and not where no score lies.                        *)
LEMMA UptoGrows ==
  ASSUME NEW f \in [Scores -> Nat], NEW s \in 0 .. Top, NEW r \in s .. Top
  PROVE  /\ Upto(f, s) <= Upto(f, r)
         /\ (\A x \in (s + 1) .. r : f[x] = 0) => Upto(f, s) = Upto(f, r)
<1>1. Top \in Nat /\ s \in Nat /\ r \in Nat /\ s <= r /\ r <= Top
  BY MetricsAssumption
<1> DEFINE N == {d \in Nat : s + d <= r =>
                   /\ Upto(f, s) <= Upto(f, s + d)
                   /\ (\A x \in (s + 1) .. r : f[x] = 0) => Upto(f, s) = Upto(f, s + d)}
<1>2. 0 \in N
  <2>1. Upto(f, s) \in Nat /\ s + 0 = s
    BY <1>1, UptoIs
  <2>2. QED BY <2>1
<1>3. ASSUME NEW d \in N PROVE d + 1 \in N
  <2> SUFFICES ASSUME s + (d + 1) <= r
               PROVE  /\ Upto(f, s) <= Upto(f, s + (d + 1))
                      /\ (\A x \in (s + 1) .. r : f[x] = 0) => Upto(f, s) = Upto(f, s + (d + 1))
    OBVIOUS
  <2>1. /\ d \in Nat /\ Upto(f, s) <= Upto(f, s + d)
        /\ (\A x \in (s + 1) .. r : f[x] = 0) => Upto(f, s) = Upto(f, s + d)
    BY <1>1
  <2>2. s + d \in 0 .. Top /\ s + d < Top /\ (s + d) + 1 = s + (d + 1)
        /\ s + (d + 1) \in (s + 1) .. r /\ s + (d + 1) \in Scores
    BY <1>1, <2>1 DEF Scores
  <2>3. /\ Upto(f, s) \in Nat /\ Upto(f, s + d) \in Nat
        /\ Upto(f, s + (d + 1)) = Upto(f, s + d) + f[s + (d + 1)]
    BY <2>2, UptoIs
  <2>4. f[s + (d + 1)] \in Nat
    BY <2>2
  <2> HIDE DEF N
  <2>5. QED BY <2>1, <2>2, <2>3, <2>4
<1>4. N = Nat
  <2>1. N \in SUBSET Nat
    OBVIOUS
  <2> HIDE DEF N
  <2>2. QED BY <1>2, <1>3, <2>1, NatSetInduction
<1>5. r - s \in Nat /\ s + (r - s) = r
  BY <1>1
<1>6. r - s \in N
  BY <1>4, <1>5
<1>7. QED BY <1>1, <1>5, <1>6

------------------------------------------------------------------------------
(* Types.                                                                      *)

(* The number of scores in a sample.                                           *)
LEMMA SizeFacts ==
  ASSUME NEW sample \in [Scores -> Nat]
  PROVE  /\ Size(sample) \in Nat /\ Size(NoScores) = 0
         /\ \A s \in Scores : Size([sample EXCEPT ![s] = @ + 1]) = Size(sample) + 1
<1>1. IsFiniteSet(Scores)
  BY MetricsAssumption, FS_Interval DEF Scores
<1>2. \A f : Size(f) = Total(f, Scores)
  BY DEF Size, Upto, Total, Scores
<1>3. Size(NoScores) = 0
  BY <1>1, <1>2, SumType DEF NoScores
<1>4. QED BY <1>1, <1>2, <1>3, SumType, SumCounts

(* A sequence of anything, with one more element.                              *)
LEMMA AppendAny ==
  ASSUME NEW s, s \in Seq(ToSet(s)), NEW e
  PROVE  /\ Append(s, e) \in Seq(ToSet(Append(s, e)))
         /\ DOMAIN Append(s, e) = DOMAIN s \cup {Len(s) + 1}
         /\ DOMAIN s = 1 .. Len(s) /\ Len(s) \in Nat
         /\ \A i \in DOMAIN s : Append(s, e)[i] = s[i]
         /\ Append(s, e)[Len(s) + 1] = e
<1> DEFINE S == ToSet(s) \cup {e}
           a == Append(s, e)
<1>1. s \in Seq(S) /\ e \in S
  BY SeqDef
<1> HIDE DEF S
<1>2. /\ a \in Seq(S) /\ DOMAIN a = 1 .. (Len(s) + 1)
      /\ DOMAIN s = 1 .. Len(s) /\ Len(s) \in Nat
      /\ \A i \in 1 .. Len(s) : a[i] = s[i]
      /\ a[Len(s) + 1] = e
  BY <1>1
<1> HIDE DEF a
<1>3. Len(a) \in Nat /\ a = [i \in 1 .. Len(a) |-> a[i]]
  BY <1>2
<1>4. a \in Seq(ToSet(a))
  BY <1>2, <1>3 DEF ToSet
<1>5. QED BY <1>2, <1>4 DEF a

(* What scoring a flow does to the samples.                                    *)
LEMMA ScoredFlow ==
  ASSUME TypeOK, ScoreFlow
  PROVE  /\ flow \in DOMAIN data.eval /\ flow' = flow + 1 /\ data.eval[flow].attack \in BOOLEAN
         /\ UNCHANGED <<data, variants, pc, next, covered, counts, results, table>>
         /\ normal' \in [Scores -> Nat] /\ attack' \in [Scores -> Nat]
         /\ Size(normal') = IF ~Abstain /\ ~data.eval[flow].attack THEN Size(normal) + 1
                                                                   ELSE Size(normal)
         /\ Size(attack') = IF ~Abstain /\ data.eval[flow].attack THEN Size(attack) + 1
                                                                  ELSE Size(attack)
<1>1. /\ flow \in DOMAIN data.eval /\ data.eval[flow].attack \in BOOLEAN
      /\ normal \in [Scores -> Nat] /\ attack \in [Scores -> Nat]
  <2>1. /\ data.eval \in Seq([attack : BOOLEAN, key : Keys]) /\ flow \in 1 .. (Len(data.eval) + 1)
        /\ normal \in [Scores -> Nat] /\ attack \in [Scores -> Nat]
    BY DEF TypeOK
  <2>2. flow <= Len(data.eval)
    BY DEF ScoreFlow
  <2>3. Len(data.eval) \in Nat /\ DOMAIN data.eval = 1 .. Len(data.eval) /\ flow \in 1 .. Len(data.eval)
    BY <2>1, <2>2
  <2>4. data.eval[flow] \in [attack : BOOLEAN, key : Keys]
    BY <2>1, <2>3, ElementOfSeq
  <2>5. QED BY <2>1, <2>3, <2>4
<1>2. /\ flow' = flow + 1
      /\ UNCHANGED <<data, variants, pc, next, covered, counts, results, table>>
  BY DEF ScoreFlow
<1>3. CASE Abstain
  <2>1. UNCHANGED <<normal, attack>>
    BY <1>3 DEF ScoreFlow
  <2>2. QED BY <1>1, <1>2, <1>3, <2>1
<1>4. CASE ~Abstain /\ data.eval[flow].attack
  <2>1. PICK s \in Scores : attack' = [attack EXCEPT ![s] = @ + 1] /\ UNCHANGED normal
    BY <1>4 DEF ScoreFlow
  <2>2. Size(attack') = Size(attack) + 1
    BY <1>1, <2>1, SizeFacts
  <2>3. QED BY <1>1, <1>2, <1>4, <2>1, <2>2
<1>5. CASE ~Abstain /\ ~data.eval[flow].attack
  <2>1. PICK s \in Scores : normal' = [normal EXCEPT ![s] = @ + 1] /\ UNCHANGED attack
    BY <1>5 DEF ScoreFlow
  <2>2. Size(normal') = Size(normal) + 1
    BY <1>1, <2>1, SizeFacts
  <2>3. QED BY <1>1, <1>2, <1>5, <2>1, <2>2
<1>6. QED BY <1>3, <1>4, <1>5

(* The types hold at the beginning and every step keeps them.                  *)
LEMMA TypeInit == Init => TypeOK
<1> SUFFICES ASSUME Init PROVE TypeOK
  OBVIOUS
<1>1. PICK c \in Comparisons : data = c.data /\ variants = c.variants
  BY DEF Init
<1>2. /\ data \in [normal : Seq(Keys), validation : Seq(Keys),
                   eval : Seq([attack : BOOLEAN, key : Keys])]
      /\ variants \in Seq([minTrain : Nat, target : Target])
  BY <1>1, BenchmarkAssumption
<1>3. Len(variants) \in Nat /\ Len(data.eval) \in Nat
  BY <1>2
<1>4. results \in Seq(ToSet(results))
  BY DEF Init
<1>5. QED BY <1>2, <1>3, <1>4 DEF Init, TypeOK, NoScores

LEMMA TypeStep == TypeOK /\ [Next]_vars => TypeOK'
<1> SUFFICES ASSUME TypeOK, [Next]_vars PROVE TypeOK'
  OBVIOUS
<1>1. Len(variants) \in Nat /\ Len(data.eval) \in Nat /\ Len(data.normal) \in Nat
      /\ Len(data.validation) \in Nat
  <2>1. /\ data.normal \in Seq(Keys) /\ data.validation \in Seq(Keys)
        /\ data.eval \in Seq([attack : BOOLEAN, key : Keys])
        /\ variants \in Seq([minTrain : Nat, target : Target])
    BY DEF TypeOK
  <2>2. QED BY <2>1, LenProperties
<1> USE DEF TypeOK
<1>2. CASE Train
  <2>1. UNCHANGED <<data, variants, next, results>> /\ next <= Len(variants) /\ pc' = "score"
    BY <1>2 DEF Train
  <2>2. /\ covered' \subseteq Keys /\ counts' \in Nat \X Nat
        /\ normal' \in [Scores -> Nat] /\ attack' \in [Scores -> Nat]
    BY <1>1, <1>2 DEF Train, Normal, NoScores
  <2>3. flow' = 1 /\ 1 \in 1 .. (Len(data.eval) + 1)
    BY <1>1, <1>2 DEF Train
  <2>4. QED BY <2>1, <2>2, <2>3
<1>3. CASE Raise
  BY <1>3 DEF Raise, scores
<1>4. CASE ScoreFlow
  <2>1. /\ flow' \in 1 .. (Len(data.eval) + 1)
        /\ UNCHANGED <<data, variants, pc, next, covered, counts, results>>
    BY <1>1, <1>4 DEF ScoreFlow
  <2>2. normal' \in [Scores -> Nat] /\ attack' \in [Scores -> Nat]
    BY <1>4, ScoredFlow
  <2>3. QED BY <2>1, <2>2
<1>5. CASE Report
  <2>1. results' \in Seq(ToSet(results'))
    BY <1>5, AppendAny DEF Report
  <2>2. QED BY <1>1, <1>5, <2>1 DEF Report, AllScored, scores
<1>6. CASE Render
  BY <1>6 DEF Render, scores
<1>7. CASE UNCHANGED vars
  BY <1>7 DEF vars, scores
<1>8. QED BY <1>2, <1>3, <1>4, <1>5, <1>6, <1>7 DEF Next

(* Every variable of a comparison keeps its type.                              *)
THEOREM TypeCorrect == Spec => []TypeOK
BY TypeInit, TypeStep, PTL DEF Spec

------------------------------------------------------------------------------
(* What is counted.                                                            *)

(* One flow more is scored, or not.                                            *)
LEMMA ScoredGrows ==
  ASSUME TypeOK, NEW class, NEW n \in Nat, NEW m \in Nat
  PROVE  /\ IsFiniteSet(ScoredOf(class, n, m))
         /\ Cardinality(ScoredOf(class, n, m)) \in Nat
         /\ Cardinality(ScoredOf(class, n, 0)) = 0
         /\ Cardinality(ScoredOf(class, n, m + 1)) =
               IF data.eval[m + 1].attack = class /\ data.eval[m + 1].key \in CoveredBy(n)
               THEN Cardinality(ScoredOf(class, n, m)) + 1
               ELSE Cardinality(ScoredOf(class, n, m))
<1>1. IsFiniteSet(1 .. m)
  BY FS_Interval
<1>2. IsFiniteSet(ScoredOf(class, n, m))
  BY <1>1, FS_Subset DEF ScoredOf
<1>3. Cardinality(ScoredOf(class, n, 0)) = 0
  <2>1. ScoredOf(class, n, 0) = {}
    BY DEF ScoredOf
  <2>2. QED BY <2>1, FS_EmptySet
<1>4. /\ m + 1 \notin ScoredOf(class, n, m)
      /\ ScoredOf(class, n, m + 1) =
           IF data.eval[m + 1].attack = class /\ data.eval[m + 1].key \in CoveredBy(n)
           THEN ScoredOf(class, n, m) \cup {m + 1} ELSE ScoredOf(class, n, m)
  BY DEF ScoredOf
<1>5. /\ Cardinality(ScoredOf(class, n, m)) \in Nat
      /\ Cardinality(ScoredOf(class, n, m) \cup {m + 1}) = Cardinality(ScoredOf(class, n, m)) + 1
  <2> DEFINE S == ScoredOf(class, n, m)
  <2>1. IsFiniteSet(S) /\ m + 1 \notin S
    BY <1>2, <1>4
  <2> HIDE DEF S
  <2>2. Cardinality(S) \in Nat /\ Cardinality(S \cup {m + 1}) = Cardinality(S) + 1
    BY <2>1, FS_AddElement, FS_CardinalityType
  <2>3. QED BY <2>2 DEF S
<1>6. QED BY <1>2, <1>3, <1>4, <1>5

(* A detector covers what its variant asks for, and nothing was scored yet.    *)
LEMMA TrainCounts ==
  ASSUME TypeOK, Train
  PROVE  CountedSoFar'
<1>1. /\ next \in DOMAIN variants /\ variants[next].minTrain \in Nat
      /\ UNCHANGED <<data, variants, next>>
      /\ flow' = 1 /\ normal' = NoScores /\ attack' = NoScores
  <2>1. variants \in Seq([minTrain : Nat, target : Target]) /\ next \in 1 .. (Len(variants) + 1)
    BY DEF TypeOK
  <2>2. next <= Len(variants)
    BY DEF Train
  <2>3. next \in 1 .. Len(variants) /\ DOMAIN variants = 1 .. Len(variants)
    BY <2>1, <2>2
  <2>4. variants[next] \in [minTrain : Nat, target : Target]
    BY <2>1, <2>3, ElementOfSeq
  <2>5. QED BY <2>3, <2>4 DEF Train
<1> DEFINE n == variants[next].minTrain
<1>2. covered' = CoveredBy(n) /\ counts' = <<Len(data.normal), Len(data.validation)>>
  BY DEF Train, Fittable, Normal, CoveredBy, In
<1>3. Size(NoScores) = 0
  BY SizeFacts DEF TypeOK
<1>4. \A class : Cardinality(ScoredOf(class, n, 0)) = 0
  BY <1>1, ScoredGrows
<1>5. /\ CoveredBy(n)' = CoveredBy(n)
      /\ \A class, m : ScoredOf(class, n, m)' = ScoredOf(class, n, m)
  BY <1>1 DEF CoveredBy, ScoredOf, In
<1>6. Size(normal)' = 0 /\ Size(attack)' = 0
  <2>1. Size(normal)' = Size(normal') /\ Size(attack)' = Size(attack')
    BY DEF Size, Upto, MapThenSumSet, MapThenFoldSet
  <2>2. QED BY <1>1, <1>3, <2>1
<1>7. flow' - 1 = 0
  BY <1>1
<1> HIDE DEF n
<1>8. /\ Size(normal)' = Cardinality(ScoredOf(FALSE, n, flow - 1))'
      /\ Size(attack)' = Cardinality(ScoredOf(TRUE, n, flow - 1))'
  BY <1>4, <1>5, <1>6, <1>7 DEF ScoredOf
<1>9. QED BY <1>1, <1>2, <1>5, <1>8 DEF CountedSoFar, n

(* Counts stay those of the flows behind.                                      *)
LEMMA ScoreCounts ==
  ASSUME TypeOK, CountedSoFar, ScoreFlow
  PROVE  CountedSoFar'
<1> DEFINE n == variants[next].minTrain
           m == flow - 1
<1>1. /\ pc = "score" /\ flow \in DOMAIN data.eval /\ flow' = flow + 1
      /\ data.eval[flow].attack \in BOOLEAN
      /\ UNCHANGED <<data, variants, next, covered, counts>>
  BY ScoredFlow DEF ScoreFlow
<1>2. n \in Nat /\ m \in Nat /\ m + 1 = flow /\ flow' - 1 = m + 1
  <2>1. /\ variants \in Seq([minTrain : Nat, target : Target])
        /\ next \in 1 .. Len(variants) /\ flow \in Nat \ {0}
    <3>1. Len(variants) \in Nat /\ Len(data.eval) \in Nat
      BY DEF TypeOK
    <3>2. /\ variants \in Seq([minTrain : Nat, target : Target])
          /\ next \in 1 .. (Len(variants) + 1) /\ next <= Len(variants)
      BY <1>1 DEF TypeOK
    <3>3. flow \in 1 .. (Len(data.eval) + 1)
      BY DEF TypeOK
    <3>4. QED BY <3>1, <3>2, <3>3
  <2>2. variants[next] \in [minTrain : Nat, target : Target]
    BY <2>1, ElementOfSeq
  <2>3. QED BY <1>1, <2>1, <2>2
<1>3. /\ covered = CoveredBy(n) /\ counts = <<Len(data.normal), Len(data.validation)>>
      /\ Size(normal) = Cardinality(ScoredOf(FALSE, n, m))
      /\ Size(attack) = Cardinality(ScoredOf(TRUE, n, m))
  BY <1>1 DEF CountedSoFar
<1>4. /\ Size(normal') = Cardinality(ScoredOf(FALSE, n, flow))
      /\ Size(attack') = Cardinality(ScoredOf(TRUE, n, flow))
  <2>1. Abstain <=> data.eval[flow].key \notin CoveredBy(n)
    BY <1>3 DEF Abstain
  <2> HIDE DEF n, m
  <2>2. \A class \in BOOLEAN :
          Cardinality(ScoredOf(class, n, flow)) =
            IF data.eval[flow].attack = class /\ data.eval[flow].key \in CoveredBy(n)
            THEN Cardinality(ScoredOf(class, n, m)) + 1 ELSE Cardinality(ScoredOf(class, n, m))
    BY <1>2, ScoredGrows
  <2>3. CASE data.eval[flow].attack = TRUE
    BY <1>3, <2>1, <2>2, <2>3, ScoredFlow
  <2>4. CASE data.eval[flow].attack = FALSE
    <3>1. Cardinality(ScoredOf(TRUE, n, flow)) = Cardinality(ScoredOf(TRUE, n, m))
      BY <2>2, <2>4
    <3>2. Cardinality(ScoredOf(FALSE, n, flow)) =
            IF data.eval[flow].key \in CoveredBy(n)
            THEN Cardinality(ScoredOf(FALSE, n, m)) + 1 ELSE Cardinality(ScoredOf(FALSE, n, m))
      BY <2>2, <2>4
    <3>3. ~data.eval[flow].attack
      BY <2>4
    <3>4. /\ Size(normal') = IF ~Abstain THEN Size(normal) + 1 ELSE Size(normal)
          /\ Size(attack') = Size(attack)
      BY <3>3, ScoredFlow
    <3>5. Size(attack') = Cardinality(ScoredOf(TRUE, n, flow))
      BY <1>3, <3>1, <3>4
    <3>6. CASE Abstain
      <4>1. Size(normal') = Size(normal)
        BY <3>4, <3>6
      <4>2. Cardinality(ScoredOf(FALSE, n, flow)) = Cardinality(ScoredOf(FALSE, n, m))
        BY <2>1, <3>2, <3>6
      <4>3. QED BY <1>3, <3>5, <4>1, <4>2
    <3>7. CASE ~Abstain
      <4>1. Size(normal') = Size(normal) + 1
        BY <3>4, <3>7
      <4>2. Cardinality(ScoredOf(FALSE, n, flow)) = Cardinality(ScoredOf(FALSE, n, m)) + 1
        BY <2>1, <3>2, <3>7
      <4>3. QED BY <1>3, <3>5, <4>1, <4>2
    <3>8. QED BY <3>6, <3>7
  <2>5. QED BY <1>1, <2>3, <2>4
<1>5. /\ n' = n /\ CoveredBy(n)' = CoveredBy(n)
      /\ \A class : ScoredOf(class, n, flow - 1)' = ScoredOf(class, n, flow)
  BY <1>1, <1>2 DEF CoveredBy, ScoredOf, In
<1>6. Size(normal)' = Size(normal') /\ Size(attack)' = Size(attack')
  BY DEF Size, Upto, MapThenSumSet, MapThenFoldSet
<1> HIDE DEF n
<1>7. /\ covered' = CoveredBy(n)' /\ counts' = <<Len(data'.normal), Len(data'.validation)>>
      /\ Size(normal)' = Cardinality(ScoredOf(FALSE, n, flow - 1))'
      /\ Size(attack)' = Cardinality(ScoredOf(TRUE, n, flow - 1))'
  BY <1>1, <1>3, <1>4, <1>5, <1>6
<1>8. QED BY <1>7 DEF CountedSoFar, n

(* The result of a variant has the counts of all flows.                        *)
LEMMA ReportCounts ==
  ASSUME TypeOK, CountedSoFar, CountedInResults, Report
  PROVE  CountedInResults'
<1> DEFINE n == variants[next].minTrain
           all == Len(data.eval)
           new == [variant |-> next,
                   report  |-> IF BothClasses THEN PartialAuc(RocCurve, TargetFpr) ELSE NoReport,
                   trainCount |-> counts[1], validationCount |-> counts[2],
                   evalNormal |-> Size(normal), evalAttack |-> Size(attack)]
<1>1. /\ pc = "score" /\ flow > all /\ results' = Append(results, new)
      /\ UNCHANGED <<data, variants>>
  BY DEF Report, AllScored
<1>2. next \in DOMAIN variants /\ all \in Nat /\ flow - 1 = all
  <2>1. Len(variants) \in Nat /\ DOMAIN variants = 1 .. Len(variants) /\ all \in Nat
    BY DEF TypeOK
  <2>2. /\ next \in 1 .. (Len(variants) + 1) /\ next <= Len(variants)
        /\ flow \in 1 .. (all + 1) /\ flow > all
    BY <1>1 DEF TypeOK
  <2> HIDE DEF all, new
  <2>3. QED BY <2>1, <2>2
<1>3. /\ new.variant = next
      /\ new.trainCount = Len(data.normal) /\ new.validationCount = Len(data.validation)
      /\ new.evalNormal = Cardinality(ScoredOf(FALSE, n, all))
      /\ new.evalAttack = Cardinality(ScoredOf(TRUE, n, all))
  <2>1. /\ counts = <<Len(data.normal), Len(data.validation)>>
        /\ Size(normal) = Cardinality(ScoredOf(FALSE, n, all))
        /\ Size(attack) = Cardinality(ScoredOf(TRUE, n, all))
    <3> HIDE DEF new
    <3>1. QED BY <1>1, <1>2 DEF CountedSoFar
  <2>2. /\ new.variant = next /\ new.trainCount = counts[1] /\ new.validationCount = counts[2]
        /\ new.evalNormal = Size(normal) /\ new.evalAttack = Size(attack)
    OBVIOUS
  <2>3. QED BY <2>1, <2>2
<1>4. new.report # NoReport <=> (new.evalNormal > 0 /\ new.evalAttack > 0)
  <2>1. PartialAuc(RocCurve, TargetFpr) # NoReport
    BY DEF PartialAuc, NoReport
  <2>2. QED BY <2>1 DEF BothClasses
<1> HIDE DEF new
<1>5. /\ DOMAIN results' = DOMAIN results \cup {Len(results) + 1}
      /\ \A i \in DOMAIN results : results'[i] = results[i]
      /\ results'[Len(results) + 1] = new
  <2>1. results \in Seq(ToSet(results)) /\ results' = Append(results, new)
    BY <1>1 DEF TypeOK
  <2>2. QED BY <2>1, AppendAny
<1>6. \A k, m, class : ScoredOf(class, k, m)' = ScoredOf(class, k, m)
  BY <1>1 DEF ScoredOf, CoveredBy, In
<1>7. SUFFICES ASSUME NEW i \in DOMAIN results'
               PROVE  LET r == results'[i]
                          k == variants[r.variant].minTrain
                      IN  /\ r.variant \in DOMAIN variants
                          /\ r.trainCount = Len(data.normal)
                          /\ r.validationCount = Len(data.validation)
                          /\ r.evalNormal = Cardinality(ScoredOf(FALSE, k, all))
                          /\ r.evalAttack = Cardinality(ScoredOf(TRUE, k, all))
                          /\ r.report # NoReport <=> (r.evalNormal > 0 /\ r.evalAttack > 0)
  BY <1>1, <1>6 DEF CountedInResults
<1>8. CASE i \in DOMAIN results
  BY <1>5, <1>8 DEF CountedInResults
<1>9. CASE i = Len(results) + 1
  BY <1>2, <1>3, <1>4, <1>5, <1>9
<1>10. QED BY <1>5, <1>8, <1>9

(* Both hold in every step.                                                    *)
LEMMA CountStep ==
  ASSUME TypeOK, CountedSoFar, CountedInResults, [Next]_vars
  PROVE  CountedSoFar' /\ CountedInResults'
<1>1. ASSUME UNCHANGED <<data, variants, results>> PROVE CountedInResults'
  <2>1. \A k, m, class : ScoredOf(class, k, m)' = ScoredOf(class, k, m)
    BY <1>1 DEF ScoredOf, CoveredBy, In
  <2>2. QED BY <1>1, <2>1 DEF CountedInResults
<1>2. CASE Train
  BY <1>1, <1>2, TrainCounts DEF Train
<1>3. CASE Raise
  BY <1>1, <1>3 DEF Raise, CountedSoFar
<1>4. CASE ScoreFlow
  BY <1>1, <1>4, ScoreCounts DEF ScoreFlow
<1>5. CASE Report
  BY <1>5, ReportCounts DEF Report, CountedSoFar
<1>6. CASE Render
  BY <1>1, <1>6 DEF Render, CountedSoFar
<1>7. CASE UNCHANGED vars
  <2>1. UNCHANGED <<data, variants, pc, next, covered, counts, flow, normal, attack, results>>
    BY <1>7 DEF vars, scores
  <2>2. /\ \A k : CoveredBy(k)' = CoveredBy(k)
        /\ \A k, m, class : ScoredOf(class, k, m)' = ScoredOf(class, k, m)
    BY <2>1 DEF ScoredOf, CoveredBy, In
  <2>3. Size(normal)' = Size(normal) /\ Size(attack)' = Size(attack)
    BY <2>1 DEF Size, Upto, MapThenSumSet, MapThenFoldSet
  <2>4. CountedSoFar'
    BY <2>1, <2>2, <2>3 DEF CountedSoFar
  <2>5. QED BY <1>1, <2>1, <2>4
<1>8. QED BY <1>2, <1>3, <1>4, <1>5, <1>6, <1>7 DEF Next

(* A variant that asks for less covers more and scores no fewer flows.         *)
LEMMA AsksLess ==
  ASSUME TypeOK, NEW k \in Nat, NEW n \in Nat, k <= n, NEW class
  PROVE  LET few  == Cardinality(ScoredOf(class, n, Len(data.eval)))
             many == Cardinality(ScoredOf(class, k, Len(data.eval)))
         IN  few \in Nat /\ many \in Nat /\ many >= few
<1>1. Len(data.eval) \in Nat /\ DOMAIN data.normal = 1 .. Len(data.normal) /\ Len(data.normal) \in Nat
  BY DEF TypeOK
<1>2. \A p : Cardinality(In(data.normal, p)) \in Nat
  <2> SUFFICES ASSUME NEW p PROVE Cardinality(In(data.normal, p)) \in Nat
    OBVIOUS
  <2>1. IsFiniteSet(1 .. Len(data.normal))
    BY <1>1, FS_Interval
  <2>2. In(data.normal, p) \subseteq 1 .. Len(data.normal)
    BY <1>1 DEF In
  <2>3. QED BY <2>1, <2>2, FS_Subset, FS_CardinalityType
<1>3. CoveredBy(n) \subseteq CoveredBy(k)
  BY <1>2 DEF CoveredBy
<1>4. ScoredOf(class, n, Len(data.eval)) \subseteq ScoredOf(class, k, Len(data.eval))
  BY <1>3 DEF ScoredOf
<1>5. IsFiniteSet(ScoredOf(class, k, Len(data.eval)))
  BY <1>1, ScoredGrows
<1>6. QED BY <1>4, <1>5, FS_Subset, FS_CardinalityType

(* benchmark.py:4, the comparison is fair: whatever the variants and the order *)
(* they are compared in, one that asks for no more flows per partition scores  *)
(* no fewer of either class, and has metrics if the other has.                 *)
THEOREM FairComparison == Spec => []SameFlowsScored
<1>1. Init => TypeOK /\ CountedSoFar /\ CountedInResults
  BY TypeInit DEF Init, CountedSoFar, CountedInResults
<1>2. TypeOK /\ CountedSoFar /\ CountedInResults /\ [Next]_vars
        => (TypeOK /\ CountedSoFar /\ CountedInResults)'
  BY TypeStep, CountStep
<1>3. TypeOK /\ CountedInResults => SameFlowsScored
  <2> SUFFICES ASSUME TypeOK, CountedInResults, NEW i \in DOMAIN results, NEW j \in DOMAIN results,
                      variants[results[i].variant].minTrain <= variants[results[j].variant].minTrain
               PROVE  LET a == results[i]
                          b == results[j]
                      IN  /\ a.evalNormal >= b.evalNormal /\ a.evalAttack >= b.evalAttack
                          /\ b.report # NoReport => a.report # NoReport
                          /\ a.trainCount = b.trainCount /\ a.validationCount = b.validationCount
    BY DEF SameFlowsScored
  <2> DEFINE a == results[i]
             b == results[j]
             k == variants[a.variant].minTrain
             n == variants[b.variant].minTrain
             all == Len(data.eval)
  <2>1. /\ a.variant \in DOMAIN variants /\ b.variant \in DOMAIN variants
        /\ a.trainCount = Len(data.normal) /\ b.trainCount = Len(data.normal)
        /\ a.validationCount = Len(data.validation) /\ b.validationCount = Len(data.validation)
        /\ a.evalNormal = Cardinality(ScoredOf(FALSE, k, all))
        /\ b.evalNormal = Cardinality(ScoredOf(FALSE, n, all))
        /\ a.evalAttack = Cardinality(ScoredOf(TRUE, k, all))
        /\ b.evalAttack = Cardinality(ScoredOf(TRUE, n, all))
        /\ a.report # NoReport <=> (a.evalNormal > 0 /\ a.evalAttack > 0)
        /\ b.report # NoReport <=> (b.evalNormal > 0 /\ b.evalAttack > 0)
    BY DEF CountedInResults
  <2>2. \A v \in DOMAIN variants : variants[v].minTrain \in Nat
    <3> SUFFICES ASSUME NEW v \in DOMAIN variants PROVE variants[v].minTrain \in Nat
      OBVIOUS
    <3>1. variants \in Seq([minTrain : Nat, target : Target]) /\ v \in 1 .. Len(variants)
      <4>1. variants \in Seq([minTrain : Nat, target : Target])
        BY DEF TypeOK
      <4>2. QED BY <4>1
    <3>2. variants[v] \in [minTrain : Nat, target : Target]
      BY <3>1, ElementOfSeq
    <3>3. QED BY <3>2
  <2>3. k \in Nat /\ n \in Nat /\ k <= n
    BY <2>1, <2>2
  <2> HIDE DEF k, n
  <2>4. /\ a.evalNormal \in Nat /\ b.evalNormal \in Nat /\ a.evalNormal >= b.evalNormal
        /\ a.evalAttack \in Nat /\ b.evalAttack \in Nat /\ a.evalAttack >= b.evalAttack
    BY <2>1, <2>3, AsksLess
  <2>5. b.report # NoReport => a.report # NoReport
    <3> HIDE DEF a, b
    <3>1. b.evalNormal > 0 /\ b.evalAttack > 0 => a.evalNormal > 0 /\ a.evalAttack > 0
      BY <2>4
    <3>2. QED BY <2>1, <3>1
  <2>6. QED BY <2>1, <2>4, <2>5
<1>4. QED BY <1>1, <1>2, <1>3, PTL DEF Spec

------------------------------------------------------------------------------
(* Listing a set in an order.                                                  *)

(* A finite set can be listed in any strict total order on it.                 *)
StrictOrder(R, S) ==
  /\ R \in SUBSET (S \X S)
  /\ \A x \in S : <<x, x>> \notin R
  /\ \A x, y, z \in S : <<x, y>> \in R /\ <<y, z>> \in R => <<x, z>> \in R
  /\ \A x, y \in S : x # y => <<x, y>> \in R \/ <<y, x>> \in R

Down(R, S, x) == {y \in S : y = x \/ <<y, x>> \in R}

LEMMA Ranks ==
  ASSUME NEW S, IsFiniteSet(S), NEW R, StrictOrder(R, S)
  PROVE  /\ \A x \in S : Cardinality(Down(R, S, x)) \in 1 .. Cardinality(S)
         /\ \A x, y \in S : <<x, y>> \in R =>
              Cardinality(Down(R, S, x)) < Cardinality(Down(R, S, y))
         /\ \A i \in 1 .. Cardinality(S) : \E x \in S : Cardinality(Down(R, S, x)) = i
<1> DEFINE rank(x) == Cardinality(Down(R, S, x))
           n == Cardinality(S)
<1>1. n \in Nat /\ IsFiniteSet(1 .. n) /\ Cardinality(1 .. n) = n
  BY FS_CardinalityType, FS_Interval
<1>2. ASSUME NEW x \in S PROVE IsFiniteSet(Down(R, S, x)) /\ rank(x) \in 1 .. n
  <2> DEFINE U == Down(R, S, x)
  <2>1. U \subseteq S /\ x \in U
    BY DEF Down
  <2> HIDE DEF U
  <2>2. IsFiniteSet(U) /\ Cardinality(U) \in Nat /\ Cardinality(U) <= n /\ Cardinality(U) # 0
    BY <2>1, FS_Subset, FS_CardinalityType, FS_EmptySet
  <2>3. QED BY <1>1, <2>2 DEF U
<1>3. ASSUME NEW x \in S, NEW y \in S, <<x, y>> \in R PROVE rank(x) < rank(y)
  <2> DEFINE U == Down(R, S, x)
             V == Down(R, S, y)
  <2>1. U \subseteq V /\ U # V
    <3>1. \A z \in U : z \in V
      BY <1>3 DEF Down, StrictOrder
    <3>2. y \in V /\ y \notin U
      BY <1>3 DEF Down, StrictOrder
    <3>3. QED BY <3>1, <3>2
  <2>2. IsFiniteSet(V) /\ Cardinality(U) \in Nat /\ Cardinality(V) \in Nat
    BY <1>1, <1>2
  <2> HIDE DEF U, V
  <2>3. Cardinality(U) <= Cardinality(V) /\ Cardinality(U) # Cardinality(V)
    BY <2>1, <2>2, FS_Subset
  <2>4. Cardinality(U) < Cardinality(V)
    BY <2>2, <2>3
  <2>5. QED BY <2>4 DEF U, V
<1> DEFINE f == [x \in S |-> rank(x)]
<1>4. f \in Injection(S, 1 .. n)
  <2>1. f \in [S -> 1 .. n]
    BY <1>2
  <2>2. ASSUME NEW x \in S, NEW y \in S, f[x] = f[y] PROVE x = y
    <3>1. rank(x) \in Nat /\ rank(y) \in Nat /\ rank(x) = rank(y)
      BY <1>1, <1>2, <2>2
    <3> HIDE DEF rank
    <3>2. ~(<<x, y>> \in R) /\ ~(<<y, x>> \in R)
      BY <1>3, <3>1
    <3>3. QED BY <3>2 DEF StrictOrder
  <2> HIDE DEF f
  <2>3. DOMAIN f = S
    BY <2>1
  <2>4. QED BY <2>1, <2>2, <2>3 DEF Injection, IsInjective
<1> HIDE DEF f, n
<1>5. f \in Surjection(S, 1 .. n)
  BY <1>1, <1>4, FS_Injection DEF n
<1>6. \A i \in 1 .. n : \E x \in S : f[x] = i
  BY <1>5 DEF Surjection
<1>7. \A i \in 1 .. n : \E x \in S : rank(x) = i
  BY <1>6 DEF f
<1>8. QED BY <1>2, <1>3, <1>7 DEF n

LEMMA Enumeration ==
  ASSUME NEW S, IsFiniteSet(S), NEW R, StrictOrder(R, S)
  PROVE  \E e \in [1 .. Cardinality(S) -> S] :
            \A i, j \in 1 .. Cardinality(S) : i < j => <<e[i], e[j]>> \in R
<1> DEFINE rank(x) == Cardinality(Down(R, S, x))
           n == Cardinality(S)
           e == [i \in 1 .. n |-> CHOOSE x \in S : rank(x) = i]
<1>1. n \in Nat /\ \A x \in S : rank(x) \in 1 .. n
  BY Ranks, FS_CardinalityType
<1>2. \A x, y \in S : <<x, y>> \in R => rank(x) < rank(y)
  BY Ranks
<1>3. \A i \in 1 .. n : \E x \in S : rank(x) = i
  BY Ranks
<1> HIDE DEF rank, n
<1>4. \A i \in 1 .. n : e[i] \in S /\ rank(e[i]) = i
  BY <1>3
<1>5. ASSUME NEW i \in 1 .. n, NEW j \in 1 .. n, i < j PROVE <<e[i], e[j]>> \in R
  <2>1. e[i] \in S /\ e[j] \in S /\ rank(e[i]) = i /\ rank(e[j]) = j
    BY <1>4
  <2> HIDE DEF e
  <2>2. e[i] # e[j] /\ ~(<<e[j], e[i]>> \in R)
    <3>1. i # j /\ ~(j < i)
      BY <1>1, <1>5
    <3>2. QED BY <1>2, <2>1, <3>1
  <2>3. QED BY <2>1, <2>2 DEF StrictOrder
<1>6. e \in [1 .. n -> S]
  BY <1>4
<1> HIDE DEF e
<1>7. QED BY <1>5, <1>6 DEF n

(* Ascending lists the members of a set of numbers from the least on.          *)
LEMMA AscendingFacts ==
  ASSUME NEW S \in SUBSET Nat, IsFiniteSet(S)
  PROVE  /\ Cardinality(S) \in Nat
         /\ Ascending(S) \in [1 .. Cardinality(S) -> S]
         /\ \A i, j \in 1 .. Cardinality(S) : i < j => Ascending(S)[i] < Ascending(S)[j]
         /\ \A s \in S : \E i \in 1 .. Cardinality(S) : Ascending(S)[i] = s
<1> DEFINE R == {p \in S \X S : p[1] < p[2]}
           n == Cardinality(S)
           rank(x) == Cardinality({t \in S : t <= x})
           a == Ascending(S)
<1>1. \A x, y \in S : <<x, y>> \in R <=> x < y
  OBVIOUS
<1>2. StrictOrder(R, S)
  <2>1. R \in SUBSET (S \X S)
    OBVIOUS
  <2> HIDE DEF R
  <2>2. QED BY <1>1, <2>1 DEF StrictOrder
<1> HIDE DEF R
<1>3. ASSUME NEW x \in S PROVE Cardinality(Down(R, S, x)) = rank(x)
  <2>1. \A t \in S : t <= x <=> (t = x \/ <<t, x>> \in R)
    <3> SUFFICES ASSUME NEW t \in S PROVE t <= x <=> (t = x \/ <<t, x>> \in R)
      OBVIOUS
    <3>1. t \in Nat /\ x \in Nat
      OBVIOUS
    <3>2. QED BY <1>1, <3>1
  <2>2. Down(R, S, x) = {t \in S : t <= x}
    BY <2>1 DEF Down
  <2>3. QED BY <2>2
<1>4. n \in Nat
  BY FS_CardinalityType
<1> HIDE DEF rank, n, a
<1>5. /\ \A x \in S : rank(x) \in 1 .. n
      /\ \A x, y \in S : x < y => rank(x) < rank(y)
      /\ \A i \in 1 .. n : \E x \in S : rank(x) = i
  <2>1. \A x \in S : Cardinality(Down(R, S, x)) \in 1 .. n
    BY <1>2, Ranks DEF n
  <2>2. \A x, y \in S : <<x, y>> \in R => Cardinality(Down(R, S, x)) < Cardinality(Down(R, S, y))
    BY <1>2, Ranks
  <2>3. \A i \in 1 .. n : \E x \in S : Cardinality(Down(R, S, x)) = i
    BY <1>2, Ranks DEF n
  <2>4. ASSUME NEW x \in S, NEW y \in S, x < y PROVE rank(x) < rank(y)
    <3>1. Cardinality(Down(R, S, x)) < Cardinality(Down(R, S, y))
      BY <1>1, <2>2, <2>4
    <3>2. QED BY <1>3, <3>1
  <2>5. QED BY <1>3, <2>1, <2>3, <2>4
<1>6. a = [i \in 1 .. n |-> CHOOSE s \in S : rank(s) = i]
  BY DEF Ascending, a, n, rank
<1>7. a \in [1 .. n -> S] /\ \A i \in 1 .. n : a[i] \in S /\ rank(a[i]) = i
  BY <1>5, <1>6
<1>8. ASSUME NEW i \in 1 .. n, NEW j \in 1 .. n, i < j PROVE a[i] < a[j]
  <2>1. a[i] \in S /\ a[j] \in S /\ rank(a[i]) = i /\ rank(a[j]) = j
    BY <1>7
  <2> DEFINE x == a[i]
             y == a[j]
  <2>2. x \in S /\ y \in S /\ rank(x) = i /\ rank(y) = j /\ i \in Nat /\ j \in Nat
    BY <1>4, <2>1
  <2> HIDE DEF x, y
  <2>3. ~(y < x) /\ x # y
    <3>1. ~(rank(y) < rank(x)) /\ rank(x) # rank(y)
      BY <1>8, <2>2
    <3>2. QED BY <1>5, <2>2, <3>1
  <2>4. x \in Nat /\ y \in Nat
    BY <2>2
  <2>5. x < y
    BY <2>3, <2>4
  <2>6. QED BY <2>5 DEF x, y
<1>9. ASSUME NEW s \in S PROVE \E i \in 1 .. n : a[i] = s
  <2>1. rank(s) \in 1 .. n
    BY <1>5
  <2> DEFINE i == rank(s)
  <2>2. a[i] \in S /\ rank(a[i]) = rank(s) /\ rank(s) \in Nat
    BY <1>4, <1>7, <2>1
  <2> DEFINE x == a[i]
  <2>3. x \in S /\ x \in Nat /\ s \in Nat
    BY <2>2
  <2>4. rank(x) = rank(s) /\ rank(s) \in Nat
    BY <2>2
  <2> HIDE DEF x
  <2>5. ~(x < s) /\ ~(s < x)
    BY <1>5, <2>3, <2>4
  <2>6. x = s
    BY <2>3, <2>5
  <2>7. QED BY <2>1, <2>6 DEF x
<1>10. QED BY <1>4, <1>7, <1>8, <1>9 DEF n, a

------------------------------------------------------------------------------
(* The ROC curve: its points belong to thresholds, in ascending order, and it   *)
(* reaches all of both samples, although roc_curve leaves points out.           *)

LEMMA FunctionIsSeq ==
  ASSUME NEW n \in Nat, NEW S, NEW f \in [1 .. n -> S]
  PROVE  f \in Seq(S) /\ Len(f) = n /\ DOMAIN f = 1 .. n
<1>1. f \in Seq(S)
  BY SeqDef
<1>2. Len(f) \in Nat /\ 1 .. Len(f) = 1 .. n
  BY <1>1, LenProperties
<1>3. Len(f) = n
  BY <1>2
<1>4. QED BY <1>1, <1>3

(* The points of a curve after its origin.                                     *)
OnCurve(points) ==
  /\ points \in Seq([fps : Nat, tps : Nat, score : Nat])
  /\ \A i \in 1 .. Len(points) :
       points[i].score \in Scores /\ points[i] = Point(points[i].score)
  /\ \A i, j \in 1 .. Len(points) : i < j => points[i].score < points[j].score
  /\ \A s \in Scores : normal[s] + attack[s] > 0 =>
       \E i \in 1 .. Len(points) : i = Len(points) /\ s <= points[i].score

LEMMA PointIs ==
  ASSUME normal \in [Scores -> Nat], attack \in [Scores -> Nat], NEW s \in 0 .. Top
  PROVE  /\ Point(s) \in [fps : Nat, tps : Nat, score : Nat]
         /\ Point(s).score = s /\ Point(s).fps = Upto(normal, s) /\ Point(s).tps = Upto(attack, s)
         /\ Point(0) = [fps |-> 0, tps |-> 0, score |-> 0]
<1>1. s \in Nat /\ 0 \in 0 .. Top
  BY MetricsAssumption
<1>2. Upto(normal, s) \in Nat /\ Upto(attack, s) \in Nat
  BY UptoIs
<1>3. Upto(normal, 0) = 0 /\ Upto(attack, 0) = 0
  BY UptoIs
<1>4. QED BY <1>1, <1>2, <1>3 DEF Point

LEMMA AllOnCurve ==
  ASSUME normal \in [Scores -> Nat], attack \in [Scores -> Nat]
  PROVE  /\ OnCurve(AllPoints)
         /\ \A s \in Scores : normal[s] + attack[s] > 0 =>
              \E i \in 1 .. Len(AllPoints) : AllPoints[i].score = s
<1> DEFINE S == {s \in Scores : normal[s] + attack[s] > 0}
           n == Cardinality(S)
           a == Ascending(S)
           p == AllPoints
<1>1. /\ n \in Nat /\ a \in [1 .. n -> S]
      /\ \A i, j \in 1 .. n : i < j => a[i] < a[j]
      /\ \A s \in S : \E i \in 1 .. n : a[i] = s
  <2>1. IsFiniteSet(Scores) /\ Scores \subseteq Nat
    BY MetricsAssumption, FS_Interval DEF Scores
  <2>2. S \in SUBSET Nat /\ IsFiniteSet(S)
    BY <2>1, FS_Subset
  <2> HIDE DEF S
  <2>3. QED BY <2>2, AscendingFacts
<1>2. p = [i \in DOMAIN a |-> Point(a[i])]
  BY DEF AllPoints
<1>3. \A s \in S : s \in Scores /\ s \in 0 .. Top /\ s \in Nat
  BY MetricsAssumption DEF Scores
<1>4. \A s \in Scores : normal[s] + attack[s] > 0 => s \in S
  OBVIOUS
<1> HIDE DEF S, n, a, p
<1>5. \A i \in 1 .. n : a[i] \in S /\ p[i] = Point(a[i])
  BY <1>1, <1>2
<1>6. \A i \in 1 .. n : /\ p[i] \in [fps : Nat, tps : Nat, score : Nat]
                        /\ p[i].score = a[i]
  BY <1>3, <1>5, PointIs
<1>7. p \in Seq([fps : Nat, tps : Nat, score : Nat]) /\ Len(p) = n
  <2>1. p \in [1 .. n -> [fps : Nat, tps : Nat, score : Nat]]
    BY <1>1, <1>2, <1>6
  <2>2. QED BY <1>1, <2>1, FunctionIsSeq
<1>8. ASSUME NEW s \in S PROVE \E i \in 1 .. n : i = n /\ s <= p[i].score
  <2>1. PICK i \in 1 .. n : a[i] = s
    BY <1>1
  <2>2. n \in 1 .. n /\ (i = n \/ i < n)
    BY <1>1
  <2>3. a[n] \in Nat /\ s \in Nat /\ s <= a[n]
    BY <1>1, <1>3, <1>5, <2>1, <2>2
  <2>4. QED BY <1>6, <2>2, <2>3
<1>9. \A i \in 1 .. n : p[i].score \in Scores /\ p[i] = Point(p[i].score)
  BY <1>3, <1>5, <1>6
<1>10. \A i, j \in 1 .. n : i < j => p[i].score < p[j].score
  BY <1>1, <1>6
<1>11. \A s \in Scores : normal[s] + attack[s] > 0 =>
         \E i \in 1 .. n : i = n /\ s <= p[i].score
  BY <1>4, <1>8
<1>12. \A s \in Scores : normal[s] + attack[s] > 0 => \E i \in 1 .. n : p[i].score = s
  BY <1>1, <1>4, <1>6
<1>13. QED BY <1>7, <1>9, <1>10, <1>11, <1>12 DEF OnCurve, p

(* Where the points that are kept were.                                        *)
LEMMA KeptIs ==
  ASSUME NEW points, NEW P, points \in Seq(P)
  PROVE  LET S == {i \in DOMAIN points : ~OnLine(points, i)}
             n == Cardinality(S)
             a == Ascending(S)
         IN  /\ S \in SUBSET (1 .. Len(points)) /\ n \in Nat /\ a \in [1 .. n -> S]
             /\ \A i, j \in 1 .. n : i < j => a[i] < a[j]
             /\ \A s \in S : \E i \in 1 .. n : a[i] = s
             /\ Kept(points) = [i \in 1 .. n |-> points[a[i]]]
<1> DEFINE m == Len(points)
           S == {i \in DOMAIN points : ~OnLine(points, i)}
           n == Cardinality(S)
           a == Ascending(S)
<1>1. m \in Nat /\ DOMAIN points = 1 .. m
  BY LenProperties
<1>2. S \in SUBSET (1 .. m)
  BY <1>1
<1>3. Kept(points) = [i \in DOMAIN a |-> points[a[i]]]
  BY DEF Kept
<1> HIDE DEF m, S, n, a
<1>4. S \in SUBSET Nat /\ IsFiniteSet(S)
  <2>1. 1 \in Int /\ m \in Int /\ \A i \in 1 .. m : i \in Nat
    BY <1>1
  <2>2. IsFiniteSet(1 .. m)
    BY <2>1, FS_Interval
  <2>3. QED BY <1>2, <2>1, <2>2, FS_Subset
<1>5. /\ n \in Nat /\ a \in [1 .. n -> S]
      /\ \A i, j \in 1 .. n : i < j => a[i] < a[j]
      /\ \A s \in S : \E i \in 1 .. n : a[i] = s
  BY <1>4, AscendingFacts DEF n, a
<1>6. Kept(points) = [i \in 1 .. n |-> points[a[i]]]
  BY <1>3, <1>5
<1>7. QED BY <1>2, <1>5, <1>6 DEF m, S, n, a

LEMMA KeptOnCurve ==
  ASSUME NEW points, OnCurve(points)
  PROVE  OnCurve(Kept(points))
<1> DEFINE m == Len(points)
           S == {i \in DOMAIN points : ~OnLine(points, i)}
           n == Cardinality(S)
           a == Ascending(S)
           p == Kept(points)
<1>1. /\ m \in Nat /\ DOMAIN points = 1 .. m
      /\ \A i \in 1 .. m : /\ points[i] \in [fps : Nat, tps : Nat, score : Nat]
                           /\ points[i].score \in Scores /\ points[i] = Point(points[i].score)
      /\ \A i, j \in 1 .. m : i < j => points[i].score < points[j].score
      /\ \A s \in Scores : normal[s] + attack[s] > 0 =>
           \E i \in 1 .. m : i = m /\ s <= points[i].score
  <2>1. points \in Seq([fps : Nat, tps : Nat, score : Nat])
    BY DEF OnCurve
  <2>2. m \in Nat /\ DOMAIN points = 1 .. m
        /\ \A i \in 1 .. m : points[i] \in [fps : Nat, tps : Nat, score : Nat]
    <3>1. points \in [1 .. m -> [fps : Nat, tps : Nat, score : Nat]] /\ m \in Nat
      BY <2>1, LenProperties
    <3>2. QED BY <3>1
  <2>3. QED BY <2>2 DEF OnCurve
<1>2. S \in SUBSET (1 .. m) /\ (m # 0 => m \in S)
  <2>1. S \in SUBSET (1 .. m)
    BY <1>1
  <2>2. ASSUME m # 0 PROVE m \in S
    <3>1. m \in 1 .. m /\ ~(m < m)
      <4>1. m \in Nat
        BY <1>1
      <4> HIDE DEF m
      <4>2. QED BY <2>2, <4>1
    <3>2. ~OnLine(points, m)
      BY <3>1 DEF OnLine
    <3>3. QED BY <1>1, <3>1, <3>2
  <2>3. QED BY <2>1, <2>2
<1>3. /\ n \in Nat /\ a \in [1 .. n -> S]
      /\ \A i, j \in 1 .. n : i < j => a[i] < a[j]
      /\ \A s \in S : \E i \in 1 .. n : a[i] = s
      /\ p = [i \in 1 .. n |-> points[a[i]]]
  BY KeptIs DEF OnCurve
<1> HIDE DEF m, S, n, a, p
<1>4. \A i \in 1 .. n : a[i] \in 1 .. m /\ p[i] = points[a[i]]
  BY <1>2, <1>3
<1>5. p \in Seq([fps : Nat, tps : Nat, score : Nat]) /\ Len(p) = n
  <2>1. p \in [1 .. n -> [fps : Nat, tps : Nat, score : Nat]]
    BY <1>1, <1>3, <1>4
  <2>2. QED BY <1>3, <2>1, FunctionIsSeq
<1>6. \A i \in 1 .. n : p[i].score \in Scores /\ p[i] = Point(p[i].score)
  BY <1>1, <1>4
<1>7. \A i, j \in 1 .. n : i < j => p[i].score < p[j].score
  <2> SUFFICES ASSUME NEW i \in 1 .. n, NEW j \in 1 .. n, i < j
               PROVE  p[i].score < p[j].score
    OBVIOUS
  <2>1. a[i] \in 1 .. m /\ a[j] \in 1 .. m /\ a[i] < a[j]
    BY <1>3, <1>4
  <2>2. points[a[i]].score < points[a[j]].score
    BY <1>1, <2>1
  <2>3. QED BY <1>4, <2>2
<1>8. ASSUME NEW s \in Scores, normal[s] + attack[s] > 0
      PROVE  \E i \in 1 .. n : i = n /\ s <= p[i].score
  <2>1. m \in 1 .. m /\ s <= points[m].score
    BY <1>1, <1>8
  <2>2. PICK i \in 1 .. n : a[i] = m
    BY <1>1, <1>2, <1>3, <2>1
  <2>3. ~(i < n)
    <3>1. SUFFICES ASSUME i < n PROVE FALSE
      OBVIOUS
    <3>2. n \in 1 .. n /\ a[n] \in 1 .. m /\ m < a[n]
      BY <1>3, <1>4, <2>2, <3>1
    <3>3. QED BY <1>1, <3>2
  <2>4. i = n
    BY <1>3, <2>3
  <2>5. QED BY <1>4, <2>1, <2>2, <2>4
<1>9. QED BY <1>5, <1>6, <1>7, <1>8 DEF OnCurve, p

(* A curve is its points after the origin.                                     *)
LEMMA CurveIs ==
  ASSUME NEW points \in Seq([fps : Nat, tps : Nat, score : Nat])
  PROVE  /\ Curve(points) \in Seq([fps : Nat, tps : Nat, score : Nat])
         /\ Len(points) \in Nat /\ Len(Curve(points)) = Len(points) + 1
         /\ DOMAIN Curve(points) = 1 .. (Len(points) + 1)
         /\ Curve(points)[1] = [fps |-> 0, tps |-> 0, score |-> 0]
         /\ \A i \in 1 .. Len(points) : Curve(points)[i + 1] = points[i]
<1> DEFINE P == [fps : Nat, tps : Nat, score : Nat]
           o == <<[fps |-> 0, tps |-> 0, score |-> 0]>>
           m == Len(points)
           c == Curve(points)
<1>1. c = o \o points
  BY DEF Curve
<1>2. o \in Seq(P) /\ Len(o) = 1 /\ o[1] = [fps |-> 0, tps |-> 0, score |-> 0]
  OBVIOUS
<1>3. m \in Nat
  BY LenProperties
<1> HIDE DEF o
<1>4. /\ o \o points \in Seq(P) /\ Len(o \o points) = Len(o) + m
      /\ \A i \in 1 .. (Len(o) + m) : (o \o points)[i] = IF i <= Len(o) THEN o[i] ELSE points[i - Len(o)]
  BY <1>2, ConcatProperties
<1> HIDE DEF m
<1>5. Len(c) = m + 1 /\ 1 + m = m + 1 /\ c \in Seq(P)
  BY <1>1, <1>2, <1>3, <1>4
<1>6. DOMAIN c = 1 .. (m + 1)
  BY <1>5, LenProperties
<1> HIDE DEF c
<1>7. \A i \in 1 .. (m + 1) : c[i] = IF i <= 1 THEN o[i] ELSE points[i - 1]
  BY <1>1, <1>2, <1>4, <1>5
<1>8. 1 \in 1 .. (m + 1) /\ 1 <= 1
  BY <1>3
<1>9. ASSUME NEW i \in 1 .. m PROVE c[i + 1] = points[i]
  <2>1. i + 1 \in 1 .. (m + 1) /\ ~(i + 1 <= 1) /\ (i + 1) - 1 = i
    BY <1>3
  <2>2. QED BY <1>7, <2>1
<1>10. QED BY <1>2, <1>3, <1>5, <1>6, <1>7, <1>8, <1>9 DEF m, c

(* A curve begins where nothing is flagged and ends where everything is.       *)
LEMMA CurveFacts ==
  ASSUME normal \in [Scores -> Nat], attack \in [Scores -> Nat], NEW points, OnCurve(points)
  PROVE  LET c == Curve(points)
             l == Len(Curve(points))
         IN  /\ l \in Nat \ {0} /\ DOMAIN c = 1 .. l
             /\ \A i \in 1 .. l :
                  /\ c[i].score \in 0 .. Top
                  /\ c[i].fps \in Nat /\ c[i].fps = Upto(normal, c[i].score)
                  /\ c[i].tps \in Nat /\ c[i].tps = Upto(attack, c[i].score)
             /\ \A i, j \in 1 .. l : i < j => /\ c[i].score < c[j].score
                                             /\ c[i].fps <= c[j].fps /\ c[i].tps <= c[j].tps
             /\ c[1].fps = 0 /\ c[1].tps = 0
             /\ c[l].fps = Size(normal) /\ c[l].tps = Size(attack)
<1> DEFINE P == [fps : Nat, tps : Nat, score : Nat]
           p == points
           m == Len(p)
           c == Curve(points)
           l == Len(Curve(points))
<1>1. /\ p \in Seq(P)
      /\ \A i \in 1 .. m : p[i].score \in Scores /\ p[i] = Point(p[i].score)
      /\ \A i, j \in 1 .. m : i < j => p[i].score < p[j].score
      /\ \A s \in Scores : normal[s] + attack[s] > 0 => \E i \in 1 .. m : i = m /\ s <= p[i].score
  BY DEF OnCurve
<1>2. Top \in Nat /\ Scores \subseteq 0 .. Top
  BY MetricsAssumption DEF Scores
<1>3. /\ m \in Nat /\ l = m + 1 /\ DOMAIN c = 1 .. l
      /\ c[1] = [fps |-> 0, tps |-> 0, score |-> 0]
      /\ \A i \in 1 .. m : c[i + 1] = p[i]
  BY <1>1, CurveIs
<1> HIDE DEF p, m, c, l
<1>4. l \in Nat \ {0} /\ DOMAIN c = 1 .. l
  BY <1>3
<1>5. ASSUME NEW i \in 1 .. l
      PROVE  \/ i = 1 /\ c[i] = Point(0) /\ c[i].score = 0
             \/ i > 1 /\ i - 1 \in 1 .. m /\ c[i] = p[i - 1]
  <2>1. CASE i = 1
    <3>1. 0 \in 0 .. Top
      BY <1>2
    <3>2. QED BY <1>3, <2>1, <3>1, PointIs
  <2>2. CASE i # 1
    <3>1. i > 1 /\ i - 1 \in 1 .. m /\ (i - 1) + 1 = i
      BY <1>3, <2>2
    <3>2. QED BY <1>3, <3>1
  <2>3. QED BY <2>1, <2>2
<1>6. \A i \in 1 .. l : c[i].score \in 0 .. Top /\ c[i] = Point(c[i].score)
  <2> SUFFICES ASSUME NEW i \in 1 .. l
               PROVE  c[i].score \in 0 .. Top /\ c[i] = Point(c[i].score)
    OBVIOUS
  <2>1. CASE c[i] = Point(0) /\ c[i].score = 0
    BY <1>2, <2>1
  <2>2. CASE i - 1 \in 1 .. m /\ c[i] = p[i - 1]
    BY <1>1, <1>2, <2>2
  <2>3. QED BY <1>5, <2>1, <2>2
<1>7. ASSUME NEW i \in 1 .. l, NEW j \in 1 .. l, i < j PROVE c[i].score < c[j].score
  <2>1. l \in Nat /\ j > 1
    BY <1>4, <1>7
  <2>2. j - 1 \in 1 .. m /\ c[j] = p[j - 1]
    BY <1>5, <2>1
  <2>3. CASE i = 1
    <3>1. c[i].score = 0 /\ p[j - 1].score \in Scores
      <4>1. ~(i > 1)
        BY <2>3
      <4>2. QED BY <1>1, <1>5, <2>2, <4>1
    <3>2. p[j - 1].score > 0
      BY <1>2, <3>1 DEF Scores
    <3>3. QED BY <2>2, <3>1, <3>2
  <2>4. CASE i > 1
    <3>1. i - 1 \in 1 .. m /\ c[i] = p[i - 1] /\ i - 1 < j - 1
      BY <1>5, <1>7, <2>1, <2>4
    <3>2. QED BY <1>1, <2>2, <3>1
  <2>5. QED BY <1>4, <2>3, <2>4
<1>8. \A i \in 1 .. l :
         /\ c[i].fps \in Nat /\ c[i].fps = Upto(normal, c[i].score)
         /\ c[i].tps \in Nat /\ c[i].tps = Upto(attack, c[i].score)
  BY <1>6, PointIs, UptoIs
<1>9. ASSUME NEW i \in 1 .. l, NEW j \in 1 .. l, i < j
       PROVE  c[i].fps <= c[j].fps /\ c[i].tps <= c[j].tps
  <2> DEFINE s == c[i].score
             r == c[j].score
  <2>1. s \in 0 .. Top /\ r \in 0 .. Top /\ s < r
    BY <1>6, <1>7, <1>9
  <2> HIDE DEF s, r
  <2>2. r \in s .. Top
    BY <1>2, <2>1
  <2>3. Upto(normal, s) <= Upto(normal, r) /\ Upto(attack, s) <= Upto(attack, r)
    BY <2>1, <2>2, UptoGrows
  <2>4. QED BY <1>8, <2>3 DEF s, r
<1>10. c[1].fps = 0 /\ c[1].tps = 0
  BY <1>3
<1>11. c[l].fps = Size(normal) /\ c[l].tps = Size(attack)
  <2> DEFINE z == c[l].score
  <2>1. l \in 1 .. l /\ z \in 0 .. Top
    BY <1>4, <1>6
  <2>2. ASSUME NEW x \in (z + 1) .. Top PROVE normal[x] = 0 /\ attack[x] = 0
    <3>1. x \in Scores /\ ~(x <= z)
      BY <1>2, <2>1 DEF Scores
    <3>2. normal[x] \in Nat /\ attack[x] \in Nat
      BY <3>1
    <3>3. ~(normal[x] + attack[x] > 0)
      <4>1. SUFFICES ASSUME normal[x] + attack[x] > 0 PROVE FALSE
        OBVIOUS
      <4>2. m \in 1 .. m /\ x <= p[m].score
        BY <1>1, <3>1, <4>1
      <4>3. l > 1 /\ l - 1 = m
        <5>1. m \in Nat /\ l = m + 1
          BY <1>2, <1>3
        <5>2. QED BY <4>2, <5>1
      <4>4. c[l] = p[m]
        BY <1>5, <2>1, <4>3
      <4>5. QED BY <3>1, <4>2, <4>4
    <3>4. QED BY <3>2, <3>3
  <2> HIDE DEF z
  <2>3. Top \in z .. Top
    BY <1>2, <2>1
  <2>4. Upto(normal, z) = Upto(normal, Top) /\ Upto(attack, z) = Upto(attack, Top)
    BY <2>1, <2>2, <2>3, UptoGrows
  <2>5. QED BY <1>8, <2>1, <2>4 DEF Size, z
<1>12. QED BY <1>4, <1>6, <1>7, <1>8, <1>9, <1>10, <1>11 DEF c, l

(* The curve of the report is one.                                             *)
LEMMA RocOnCurve ==
  ASSUME normal \in [Scores -> Nat], attack \in [Scores -> Nat]
  PROVE  OnCurve(Kept(AllPoints)) /\ RocCurve = Curve(Kept(AllPoints))
BY AllOnCurve, KeptOnCurve DEF RocCurve

(* Products of integers.                                                       *)
LEMMA TimesGrows ==
  ASSUME NEW a \in Int, NEW b \in Int, NEW c \in Nat
  PROVE  /\ a <= b => a * c <= b * c
         /\ a < b /\ c > 0 => a * c < b * c
<1>1. b - a \in Int /\ (b - a) * c = b * c - a * c
  OBVIOUS
<1>2. \A x, y \in Nat : x * y \in Nat /\ (x > 0 /\ y > 0 => x * y > 0)
  OBVIOUS
<1>3. a <= b => (b - a) * c \in Nat
  BY <1>2
<1>4. a < b /\ c > 0 => (b - a) * c > 0
  BY <1>2
<1>5. a * c \in Int /\ b * c \in Int
  OBVIOUS
<1>6. QED BY <1>1, <1>3, <1>4, <1>5

(* Up to the target the points are a beginning of the curve, which ends beyond *)
(* the target.                                                                 *)
LEMMA StopFacts ==
  ASSUME normal \in [Scores -> Nat], attack \in [Scores -> Nat], NEW points, OnCurve(points),
         NEW q \in Target
  PROVE  LET c == Curve(points)
             k == Stop(Curve(points), q)
         IN  /\ k \in 1 .. Len(c)
             /\ \A i \in 1 .. Len(c) : Within(c[i], q) <=> i <= k
             /\ Size(normal) > 0 => k < Len(c)
             /\ EligibleLast(c, q) = c[k]
<1> DEFINE c == Curve(points)
           l == Len(Curve(points))
           W == {i \in 1 .. l : Within(c[i], q)}
<1>1. /\ q[1] \in Nat \ {0} /\ q[2] \in Nat \ {0} /\ q[1] < q[2]
      /\ Size(normal) \in Nat
  BY SizeFacts DEF Target
<1>2. /\ l \in Nat \ {0} /\ DOMAIN c = 1 .. l /\ c[1].fps = 0 /\ c[l].fps = Size(normal)
      /\ \A i \in 1 .. l : c[i].fps \in Nat
      /\ \A i, j \in 1 .. l : i < j => c[i].fps <= c[j].fps
  BY CurveFacts
<1> HIDE DEF c, l
<1>3. 1 \in W
  BY <1>1, <1>2 DEF Within
<1>4. ASSUME NEW i \in 1 .. l, NEW j \in 1 .. l, i < j, Within(c[j], q)
      PROVE  Within(c[i], q)
  <2>1. c[i].fps \in Nat /\ c[j].fps \in Nat /\ c[i].fps <= c[j].fps
    BY <1>2, <1>4
  <2>2. c[i].fps * q[2] <= c[j].fps * q[2]
    BY <1>1, <2>1, TimesGrows
  <2>3. /\ c[j].fps * q[2] <= Size(normal) * q[1] /\ c[i].fps * q[2] \in Int
        /\ c[j].fps * q[2] \in Int /\ Size(normal) * q[1] \in Int
    BY <1>1, <1>4, <2>1 DEF Within
  <2>4. c[i].fps * q[2] <= Size(normal) * q[1]
    BY <2>2, <2>3
  <2>5. QED BY <2>4 DEF Within
<1>5. PICK k \in W : \A i \in W : i <= k
  <2> DEFINE D == {d \in Nat : l - d \in W}
  <2>1. l - 1 \in D
    BY <1>2, <1>3
  <2>2. PICK d \in D : \A e \in D : d <= e
    <3>1. D \in SUBSET Nat /\ D # {}
      BY <2>1
    <3> HIDE DEF D
    <3>2. QED BY <3>1, LeastExists
  <2>3. \A i \in W : i \in Int /\ l - i \in Nat /\ l - (l - i) = i
    BY <1>2
  <2>4. \A i \in W : i <= l - d
    <3> SUFFICES ASSUME NEW i \in W PROVE i <= l - d
      OBVIOUS
    <3>1. l - i \in D
      BY <2>3
    <3>2. d <= l - i /\ d \in Nat
      BY <2>2, <3>1
    <3>3. QED BY <1>2, <2>3, <3>2
  <2>5. l - d \in W
    OBVIOUS
  <2>6. QED BY <2>4, <2>5
<1>6. k \in 1 .. l /\ \A i \in 1 .. l : Within(c[i], q) <=> i <= k
  <2>1. k \in 1 .. l /\ Within(c[k], q) /\ \A i \in 1 .. l : Within(c[i], q) => i <= k
    BY <1>5
  <2>2. ASSUME NEW i \in 1 .. l, i <= k PROVE Within(c[i], q)
    <3>1. i = k \/ i < k
      BY <1>2, <2>1, <2>2
    <3>2. QED BY <1>4, <2>1, <3>1
  <2>3. QED BY <2>1, <2>2
<1>7. Stop(c, q) = k
  <2>1. W = 1 .. k
    BY <1>2, <1>6
  <2>2. Stop(c, q) = Cardinality(1 .. k)
    BY <1>2, <2>1 DEF Stop
  <2>3. 1 \in Int /\ k \in Int /\ ~(1 > k)
    BY <1>2, <1>6
  <2>4. Cardinality(1 .. k) = k - 1 + 1
    BY <2>3, FS_Interval
  <2>5. QED BY <2>2, <2>3, <2>4
<1>8. ASSUME Size(normal) > 0 PROVE k < l
  <2>1. ~Within(c[l], q)
    <3>1. q[1] * Size(normal) < q[2] * Size(normal)
      BY <1>1, <1>8, TimesGrows
    <3>2. /\ c[l].fps * q[2] = q[2] * Size(normal) /\ Size(normal) * q[1] = q[1] * Size(normal)
          /\ q[1] * Size(normal) \in Int /\ q[2] * Size(normal) \in Int
      BY <1>1, <1>2
    <3>3. QED BY <3>1, <3>2 DEF Within
  <2>2. l \in 1 .. l /\ ~(l <= k)
    BY <1>2, <1>6, <2>1
  <2>3. QED BY <1>2, <1>6, <2>2
<1>9. EligibleLast(c, q) = c[k]
  <2> DEFINE Q(i) == Within(c[i], q) /\ \A j \in DOMAIN c : Within(c[j], q) => j <= i
  <2>1. k \in DOMAIN c /\ Q(k)
    BY <1>2, <1>6
  <2>2. ASSUME NEW i \in DOMAIN c, Q(i) PROVE i = k
    <3>1. i \in 1 .. l /\ i <= k /\ k <= i
      BY <1>2, <1>6, <2>1, <2>2
    <3>2. QED BY <1>2, <1>6, <3>1
  <2>3. (CHOOSE i \in DOMAIN c : Q(i)) = k
    <3> HIDE DEF Q
    <3>1. QED BY <2>1, <2>2
  <2>4. QED BY <2>3 DEF EligibleLast
<1>10. QED BY <1>6, <1>7, <1>8, <1>9 DEF c, l

(* The target of the variant at hand.                                          *)
LEMMA TargetIs ==
  ASSUME TypeOK, pc = "score"
  PROVE  TargetFpr \in Target
<1>1. variants \in Seq([minTrain : Nat, target : Target]) /\ next \in 1 .. Len(variants)
  <2>1. /\ variants \in Seq([minTrain : Nat, target : Target])
        /\ next \in 1 .. (Len(variants) + 1) /\ next <= Len(variants)
    BY DEF TypeOK
  <2>2. QED BY <2>1
<1>2. variants[next] \in [minTrain : Nat, target : Target]
  BY <1>1, ElementOfSeq
<1>3. QED BY <1>2 DEF TargetFpr

(* evaluation.py:86, the threshold that is reported realises the rates that    *)
(* are reported with it, for every sample of scores and every target.          *)
THEOREM OperatingPoint == Spec => []ThresholdIsRealised
<1>1. TypeOK => ThresholdIsRealised
  <2> SUFFICES ASSUME TypeOK, AllScored
               PROVE  LET p == TprAtFpr(TargetFpr)
                      IN  /\ p.score \in 0 .. Top
                          /\ Upto(attack, p.score) = p.tps
                          /\ Upto(normal, p.score) * TargetFpr[2] <= Size(normal) * TargetFpr[1]
    BY DEF ThresholdIsRealised
  <2> DEFINE c == RocCurve
             k == Stop(RocCurve, TargetFpr)
  <2>1. normal \in [Scores -> Nat] /\ attack \in [Scores -> Nat] /\ TargetFpr \in Target
    BY TargetIs DEF TypeOK, AllScored
  <2>2. k \in 1 .. Len(c) /\ Within(c[k], TargetFpr) /\ TprAtFpr(TargetFpr) = c[k]
    <3>1. /\ k \in 1 .. Len(c) /\ TprAtFpr(TargetFpr) = c[k]
          /\ \A i \in 1 .. Len(c) : Within(c[i], TargetFpr) <=> i <= k
      BY <2>1, RocOnCurve, StopFacts DEF TprAtFpr
    <3>2. Len(c) \in Nat
      BY <2>1, RocOnCurve, CurveFacts
    <3>3. k <= k
      BY <3>1, <3>2
    <3>4. QED BY <3>1, <3>3
  <2>3. /\ c[k].score \in 0 .. Top /\ c[k].fps = Upto(normal, c[k].score)
        /\ c[k].tps = Upto(attack, c[k].score)
    BY <2>1, <2>2, RocOnCurve, CurveFacts
  <2>4. c[k].fps * TargetFpr[2] <= Size(normal) * TargetFpr[1]
    BY <2>2 DEF Within
  <2>5. QED BY <2>2, <2>3, <2>4
<1>2. QED BY <1>1, TypeCorrect, PTL

------------------------------------------------------------------------------
(* The partial area.                                                           *)

(* Both counts of a curve's first l points grow along it.                      *)
Rises(c, l) ==
  /\ l \in Nat
  /\ \A i \in 1 .. l : c[i].fps \in Nat /\ c[i].tps \in Nat
  /\ \A i, j \in 1 .. l : i < j => c[i].fps <= c[j].fps /\ c[i].tps <= c[j].tps

Trapezoid(c, i) == (c[i + 1].fps - c[i].fps) * (c[i + 1].tps + c[i].tps)

(* The area up to a point more is larger by a trapezoid.                       *)
LEMMA AreaGrows ==
  ASSUME NEW c, NEW l, Rises(c, l), NEW k \in 1 .. l
  PROVE  /\ Trapezoids(c, k) \in Nat
         /\ k = 1 => Trapezoids(c, k) = 0
         /\ k < l => /\ Trapezoid(c, k) \in Nat
                     /\ Trapezoids(c, k + 1) = Trapezoids(c, k) + Trapezoid(c, k)
<1>1. l \in Nat /\ k \in Nat /\ 1 <= k /\ k <= l
  BY DEF Rises
<1>2. ASSUME NEW i \in 1 .. l, i < l PROVE Trapezoid(c, i) \in Nat
  <2>1. i + 1 \in 1 .. l /\ i < i + 1
    BY <1>1, <1>2
  <2>2. /\ c[i + 1].fps \in Nat /\ c[i + 1].tps \in Nat /\ c[i].fps \in Nat /\ c[i].tps \in Nat
        /\ c[i].fps <= c[i + 1].fps
    BY <2>1 DEF Rises
  <2>3. c[i + 1].fps - c[i].fps \in Nat /\ c[i + 1].tps + c[i].tps \in Nat
    BY <2>2
  <2>4. \A x, y \in Nat : x * y \in Nat
    OBVIOUS
  <2>5. QED BY <2>3, <2>4 DEF Trapezoid
<1> DEFINE S(n) == 1 .. (n - 1)
           area(n) == [i \in S(n) |-> (c[i + 1].fps - c[i].fps) * (c[i + 1].tps + c[i].tps)]
<1>3. ASSUME NEW n \in 1 .. l
      PROVE  /\ IsFiniteSet(S(n)) /\ Trapezoids(c, n) = Total(area(n), S(n))
             /\ \A i \in S(n) : area(n)[i] = Trapezoid(c, i) /\ area(n)[i] \in Nat
  <2>1. 1 \in Int /\ n - 1 \in Int
    BY <1>1
  <2>2. IsFiniteSet(S(n))
    BY <2>1, FS_Interval
  <2>3. Trapezoids(c, n) = Total(area(n), S(n))
    BY DEF Trapezoids, Total
  <2>4. \A i \in S(n) : i \in 1 .. l /\ i < l
    BY <1>1
  <2>5. \A i \in S(n) : area(n)[i] = Trapezoid(c, i)
    BY DEF Trapezoid
  <2>6. QED BY <1>2, <2>2, <2>3, <2>4, <2>5
<1> HIDE DEF area
<1>4. Trapezoids(c, k) \in Nat
  BY <1>3, SumType
<1>5. ASSUME k = 1 PROVE Trapezoids(c, k) = 0
  <2>1. \A i \in S(k) : area(k)[i] = 0
    BY <1>5
  <2>2. QED BY <1>3, <2>1, SumType
<1>6. ASSUME k < l PROVE Trapezoids(c, k + 1) = Trapezoids(c, k) + Trapezoid(c, k)
  <2>1. k + 1 \in 1 .. l /\ k \in S(k + 1) /\ S(k + 1) \ {k} = S(k)
    BY <1>1, <1>6
  <2> DEFINE f == area(k + 1)
  <2>2. \A i \in S(k) : i \in S(k + 1)
    BY <2>1
  <2> HIDE DEF S
  <2>3. Total(f, S(k + 1)) = f[k] + Total(f, S(k))
    BY <1>3, <2>1, SumWithout
  <2>4. Total(f, S(k)) = Total(area(k), S(k))
    <3>1. \A i \in S(k) : f[i] = area(k)[i]
      BY <1>3, <2>1, <2>2
    <3> HIDE DEF f
    <3>2. QED BY <1>3, <3>1, SumSame
  <2>5. f[k] = Trapezoid(c, k) /\ f[k] \in Nat
    BY <1>3, <2>1
  <2>6. Trapezoids(c, k + 1) = Total(f, S(k + 1)) /\ Trapezoids(c, k) = Total(area(k), S(k))
    BY <1>3, <2>1
  <2> HIDE DEF f
  <2>7. QED BY <1>4, <2>3, <2>4, <2>5, <2>6
<1>7. QED BY <1>2, <1>4, <1>5, <1>6

(* A curve as these lemmas have it.                                            *)
LEMMA CurveRises ==
  ASSUME normal \in [Scores -> Nat], attack \in [Scores -> Nat], NEW points, OnCurve(points)
  PROVE  /\ Rises(Curve(points), Len(Curve(points)))
         /\ Curve(points)[1].fps = 0
         /\ \A i \in 1 .. Len(Curve(points)) : Curve(points)[i].tps <= Size(attack)
<1> DEFINE c == Curve(points)
           l == Len(c)
<1>1. /\ l \in Nat \ {0} /\ c[1].fps = 0 /\ c[l].tps = Size(attack)
      /\ \A i \in 1 .. l : c[i].fps \in Nat /\ c[i].tps \in Nat
      /\ \A i, j \in 1 .. l : i < j => c[i].fps <= c[j].fps /\ c[i].tps <= c[j].tps
  BY CurveFacts
<1> HIDE DEF c, l
<1>2. ASSUME NEW i \in 1 .. l PROVE c[i].tps <= Size(attack)
  <2>1. l \in 1 .. l /\ (i = l \/ i < l)
    BY <1>1
  <2>2. QED BY <1>1, <2>1
<1>3. Rises(c, l)
  BY <1>1 DEF Rises
<1>4. QED BY <1>1, <1>2, <1>3 DEF c, l

(* A partial area is a fraction that is not negative.                          *)
LEMMA AreaIsFraction ==
  ASSUME normal \in [Scores -> Nat], attack \in [Scores -> Nat], NEW q \in Target,
         Size(normal) > 0, Size(attack) > 0, NEW points, OnCurve(points)
  PROVE  PartialAuc(Curve(points), q) \in Nat \X (Nat \ {0})
<1> DEFINE c == Curve(points)
           l == Len(Curve(points))
           k == Stop(Curve(points), q)
           a == c[k]
           b == c[k + 1]
           w == b.fps - a.fps
           u == Size(normal) * q[1] - a.fps * q[2]
           h == Height(a, b, Size(normal) * q[1], q[2])
<1>1. /\ q[1] \in Nat \ {0} /\ q[2] \in Nat \ {0}
      /\ Size(normal) \in Nat \ {0} /\ Size(attack) \in Nat \ {0}
  BY SizeFacts DEF Target
<1>2. \A x, y \in Nat : x * y \in Nat /\ (x # 0 /\ y # 0 => x * y # 0)
  OBVIOUS
<1>3. /\ k \in 1 .. l /\ k < l /\ l \in Nat
      /\ \A i \in 1 .. l : /\ Within(c[i], q) <=> i <= k
                           /\ c[i].fps \in Nat /\ c[i].tps \in Nat
      /\ \A i, j \in 1 .. l : i < j => c[i].fps <= c[j].fps /\ c[i].tps <= c[j].tps
  BY <1>1, StopFacts, CurveFacts
<1> HIDE DEF c, l, k
<1>4. k + 1 \in 1 .. l /\ k \in 1 .. l /\ k < k + 1 /\ k <= k /\ ~(k + 1 <= k) /\ k \in Nat
  BY <1>3
<1>5. /\ a.fps \in Nat /\ b.fps \in Nat /\ a.tps \in Nat /\ b.tps \in Nat
      /\ a.fps <= b.fps /\ a.tps <= b.tps /\ Within(a, q) /\ ~Within(b, q)
  BY <1>3, <1>4
<1>6. Trapezoids(c, k) \in Nat
  BY <1>3, CurveRises, AreaGrows DEF c, l
<1> HIDE DEF a, b
<1>7. w \in Nat \ {0} /\ u \in Nat
  <2>1. a.fps # b.fps
    BY <1>5 DEF Within
  <2>2. a.fps * q[2] \in Nat /\ Size(normal) * q[1] \in Nat /\ a.fps * q[2] <= Size(normal) * q[1]
    BY <1>1, <1>2, <1>5 DEF Within
  <2>3. QED BY <1>5, <2>1, <2>2
<1>8. h = a.tps * w * q[2] + u * (b.tps - a.tps)
  BY DEF Height
<1> HIDE DEF w, u, h
<1>9. a.tps * w * q[2] \in Nat
  BY <1>1, <1>2, <1>5, <1>7
<1>10. h \in Nat
  <2>1. b.tps - a.tps \in Nat
    BY <1>5
  <2>2. u * (b.tps - a.tps) \in Nat
    BY <1>2, <1>7, <2>1
  <2>3. QED BY <1>8, <1>9, <2>2
<1>11. u * (a.tps * w * q[2] + h) \in Nat
  <2>1. a.tps * w * q[2] + h \in Nat
    BY <1>9, <1>10
  <2>2. QED BY <1>2, <1>7, <2>1
<1>12. Trapezoids(c, k) * w * q[2] * q[2] \in Nat
  BY <1>1, <1>2, <1>6, <1>7
<1>13. Rectangle(q) * w \in Nat \ {0}
  <2>1. 2 * q[1] \in Nat \ {0}
    BY <1>1
  <2>2. 2 * q[1] * q[2] \in Nat \ {0}
    BY <1>1, <1>2, <2>1
  <2>3. 2 * q[1] * q[2] * Size(normal) \in Nat \ {0}
    BY <1>1, <1>2, <2>2
  <2>4. Rectangle(q) \in Nat \ {0}
    BY <1>1, <1>2, <2>3 DEF Rectangle
  <2>5. QED BY <1>2, <1>7, <2>4
<1>14. PartialAuc(c, q) =
         <<Trapezoids(c, k) * w * q[2] * q[2] + u * (a.tps * w * q[2] + h), Rectangle(q) * w>>
  BY DEF PartialAuc, c, k, a, b, w, u, h
<1>15. QED BY <1>11, <1>12, <1>13, <1>14 DEF c

(* Where the curve climbs to n before it goes right, it is as high as can be.  *)
Early(c, l, n) ==
  \A i \in 1 .. l : i < l /\ c[i].fps # c[i + 1].fps => c[i].tps = n /\ c[i + 1].tps = n

(* The area is at most that of a rectangle of the curve's height.              *)
LEMMA AreaBounded ==
  ASSUME NEW c, NEW l, Rises(c, l), NEW n \in Nat, \A i \in 1 .. l : c[i].tps <= n,
         c[1].fps = 0, NEW k \in 1 .. l
  PROVE  /\ Trapezoids(c, k) <= 2 * (c[k].fps * n)
         /\ Early(c, l, n) => Trapezoids(c, k) = 2 * (c[k].fps * n)
<1>1. l \in Nat /\ k \in Nat /\ 1 <= k /\ k <= l
  BY DEF Rises
<1> DEFINE Holds(i) == /\ Trapezoids(c, i) <= 2 * (c[i].fps * n)
                       /\ Early(c, l, n) => Trapezoids(c, i) = 2 * (c[i].fps * n)
           N == {d \in Nat : d + 1 <= l => Holds(d + 1)}
<1>2. 0 \in N
  <2>1. 1 \in 1 .. l /\ 0 + 1 = 1
    BY <1>1
  <2>2. Trapezoids(c, 1) = 0
    BY <2>1, AreaGrows
  <2>3. 2 * (c[1].fps * n) = 0
    OBVIOUS
  <2>4. QED BY <2>1, <2>2, <2>3
<1>3. ASSUME NEW d \in N PROVE d + 1 \in N
  <2>1. d \in Nat
    OBVIOUS
  <2> SUFFICES ASSUME (d + 1) + 1 <= l PROVE Holds((d + 1) + 1)
    BY <2>1
  <2> DEFINE i == d + 1
             a == c[i]
             b == c[i + 1]
  <2>2. i \in 1 .. l /\ i < l /\ i + 1 \in 1 .. l /\ i < i + 1
    BY <1>1, <2>1
  <2>3. Holds(i)
    BY <1>1, <2>1, <2>2
  <2> HIDE DEF i, N
  <2>4. /\ a.fps \in Nat /\ a.tps \in Nat /\ b.fps \in Nat /\ b.tps \in Nat
        /\ a.fps <= b.fps /\ a.tps <= n /\ b.tps <= n
    BY <2>2 DEF Rises
  <2>5. /\ Trapezoids(c, i) \in Nat
        /\ Trapezoids(c, i + 1) = Trapezoids(c, i) + (b.fps - a.fps) * (b.tps + a.tps)
    BY <2>2, AreaGrows DEF Trapezoid
  <2>6. Early(c, l, n) => b.fps = a.fps \/ (a.tps = n /\ b.tps = n)
    BY <2>2 DEF Early
  <2> DEFINE w == b.fps - a.fps
             t == b.tps + a.tps
  <2>7. w \in Nat /\ t \in Nat /\ t <= 2 * n /\ 2 * n \in Nat
    BY <2>4
  <2>8. t * w <= (2 * n) * w
    BY <2>7, TimesGrows
  <2>9. (b.fps - a.fps) * (b.tps + a.tps) = t * w
    BY <2>7
  <2>10. (2 * n) * w = 2 * (b.fps * n) - 2 * (a.fps * n)
    <3>1. \A x, y \in Int : (2 * n) * (y - x) = 2 * (y * n) - 2 * (x * n)
      OBVIOUS
    <3>2. a.fps \in Int /\ b.fps \in Int
      BY <2>4
    <3>3. QED BY <3>1, <3>2
  <2>11. ASSUME Early(c, l, n) PROVE t * w = (2 * n) * w
    <3>1. CASE b.fps = a.fps
      <4>1. w = 0
        BY <2>4, <3>1
      <4> HIDE DEF w, t
      <4>2. t * 0 = 0 /\ (2 * n) * 0 = 0
        BY <2>7
      <4>3. QED BY <4>1, <4>2
    <3>2. CASE a.tps = n /\ b.tps = n
      <4>1. t = 2 * n
        BY <3>2
      <4> HIDE DEF w, t
      <4>2. QED BY <4>1
    <3>3. QED BY <2>6, <2>11, <3>1, <3>2
  <2>12. t * w \in Int /\ (2 * n) * w \in Int /\ 2 * (b.fps * n) \in Int /\ 2 * (a.fps * n) \in Int
    BY <2>4, <2>7
  <2> DEFINE A == Trapezoids(c, i)
             B == 2 * (a.fps * n)
             C == 2 * (b.fps * n)
             X == t * w
             Y == (2 * n) * w
  <2>13. /\ A \in Int /\ B \in Int /\ C \in Int /\ X \in Int /\ Y \in Int
         /\ X <= Y /\ Y = C - B /\ A <= B /\ Trapezoids(c, i + 1) = A + X
         /\ (Early(c, l, n) => X = Y) /\ (Early(c, l, n) => A = B)
    <3>1. A <= B /\ (Early(c, l, n) => A = B)
      BY <2>3
    <3>2. A \in Int /\ Trapezoids(c, i + 1) = A + X
      BY <2>5, <2>9
    <3>3. X <= Y /\ Y = C - B /\ (Early(c, l, n) => X = Y)
      BY <2>8, <2>10, <2>11
    <3>4. X \in Int /\ Y \in Int /\ B \in Int /\ C \in Int
      BY <2>12
    <3>5. QED BY <3>1, <3>2, <3>3, <3>4
  <2> HIDE DEF A, B, C, X, Y
  <2>14. Trapezoids(c, i + 1) <= C
    BY <2>13
  <2>15. Early(c, l, n) => Trapezoids(c, i + 1) = C
    BY <2>13
  <2>16. Holds(i + 1)
    BY <2>14, <2>15 DEF C
  <2> HIDE DEF Holds
  <2>17. QED BY <2>16 DEF i
<1>4. N = Nat
  <2>1. N \in SUBSET Nat
    OBVIOUS
  <2> HIDE DEF N
  <2>2. QED BY <1>2, <1>3, <2>1, NatSetInduction
<1>5. k - 1 \in Nat /\ (k - 1) + 1 = k
  BY <1>1
<1> HIDE DEF Holds
<1>6. (k - 1) + 1 <= l => Holds((k - 1) + 1)
  BY <1>4, <1>5
<1>7. Holds(k)
  BY <1>1, <1>5, <1>6
<1>8. QED BY <1>7 DEF Holds

(* From g on the curve takes n equal steps.                                    *)
StepsBy(c, g, n, x, y) ==
  \A i \in g .. (g + n) : i < g + n => c[i + 1].fps = c[i].fps + x /\ c[i + 1].tps = c[i].tps + y

(* On a line the area is that of one trapezoid, however many points are on it. *)
LEMMA Straight ==
  ASSUME NEW c, NEW l, Rises(c, l), NEW g \in 1 .. l, NEW n \in Nat, g + n <= l,
         NEW x \in Nat, NEW y \in Nat, StepsBy(c, g, n, x, y), NEW m \in 0 .. n
  PROVE  /\ c[g + m].fps = c[g].fps + m * x
         /\ c[g + m].tps = c[g].tps + m * y
         /\ Trapezoids(c, g + m) = Trapezoids(c, g) + (m * x) * (2 * c[g].tps + m * y)
<1>1. l \in Nat /\ g \in Nat /\ 1 <= g /\ g <= l
  BY DEF Rises
<1> DEFINE a == c[g].fps
           b == c[g].tps
           T == Trapezoids(c, g)
           Holds(d) == /\ c[g + d].fps = a + d * x
                       /\ c[g + d].tps = b + d * y
                       /\ Trapezoids(c, g + d) = T + (d * x) * (2 * b + d * y)
           N == {d \in Nat : d <= n => Holds(d)}
<1>2. a \in Nat /\ b \in Nat /\ T \in Nat
  BY AreaGrows DEF Rises
<1> HIDE DEF a, b, T
<1>3. 0 \in N
  <2>1. g + 0 = g /\ 0 * x = 0 /\ 0 * y = 0
    BY <1>1
  <2>2. a + 0 = a /\ b + 0 = b /\ T + 0 * (2 * b + 0) = T
    BY <1>2
  <2>3. QED BY <2>1, <2>2 DEF a, b, T
<1>4. ASSUME NEW d \in N PROVE d + 1 \in N
  <2>1. d \in Nat
    OBVIOUS
  <2> SUFFICES ASSUME d + 1 <= n PROVE Holds(d + 1)
    BY <2>1
  <2>2. Holds(d)
    BY <2>1
  <2> DEFINE i == g + d
             e == d + 1
  <2>3. i \in g .. (g + n) /\ i < g + n /\ i \in 1 .. l /\ i < l /\ g + e = i + 1
    BY <1>1, <2>1
  <2> HIDE DEF i, N
  <2>4. c[i + 1].fps = c[i].fps + x /\ c[i + 1].tps = c[i].tps + y
    BY <2>3 DEF StepsBy
  <2>5. /\ c[i].fps = a + d * x /\ c[i].tps = b + d * y
        /\ Trapezoids(c, i) = T + (d * x) * (2 * b + d * y)
    BY <2>2 DEF i
  <2>6. Trapezoids(c, i + 1) = Trapezoids(c, i) + (c[i + 1].fps - c[i].fps) * (c[i + 1].tps + c[i].tps)
    BY <2>3, AreaGrows DEF Trapezoid
  <2>7. e * x = d * x + x /\ e * y = d * y + y /\ d * x \in Nat /\ d * y \in Nat
    BY <2>1
  <2>8. c[i + 1].fps = a + e * x /\ c[i + 1].tps = b + e * y
    BY <1>2, <2>4, <2>5, <2>7
  <2>9. c[i + 1].fps - c[i].fps = x /\ c[i + 1].tps + c[i].tps = 2 * b + 2 * (d * y) + y
    BY <1>2, <2>4, <2>5, <2>7
  <2>10. (e * x) * (2 * b + e * y) = (d * x) * (2 * b + d * y) + x * (2 * b + 2 * (d * y) + y)
    <3>1. \A p, q, r, s \in Int :
             ((p + 1) * q) * (2 * r + (p + 1) * s)
               = (p * q) * (2 * r + p * s) + q * (2 * r + 2 * (p * s) + s)
      OBVIOUS
    <3>2. QED BY <1>2, <2>1, <3>1
  <2>11. Trapezoids(c, i + 1) = T + (e * x) * (2 * b + e * y)
    <3> DEFINE u == (d * x) * (2 * b + d * y)
               v == x * (2 * b + 2 * (d * y) + y)
    <3>1. u \in Int /\ v \in Int
      BY <1>2, <2>7
    <3>2. Trapezoids(c, i + 1) = (T + u) + v
      BY <2>5, <2>6, <2>9
    <3>3. (e * x) * (2 * b + e * y) = u + v
      BY <2>10
    <3> HIDE DEF u, v
    <3>4. QED BY <1>2, <3>1, <3>2, <3>3
  <2>12. QED BY <2>3, <2>8, <2>11
<1>5. N = Nat
  <2>1. N \in SUBSET Nat
    OBVIOUS
  <2> HIDE DEF N
  <2>2. QED BY <1>3, <1>4, <2>1, NatSetInduction
<1>6. m \in Nat /\ m <= n
  OBVIOUS
<1> HIDE DEF Holds
<1>7. Holds(m)
  BY <1>5, <1>6
<1>8. QED BY <1>7 DEF Holds, a, b, T

(* i lies in the middle between its neighbours.                                *)
Middle(c, i) ==
  /\ c[i + 1].fps + c[i - 1].fps = 2 * c[i].fps
  /\ c[i + 1].tps + c[i - 1].tps = 2 * c[i].tps

(* Where all points are in the middle all steps are equal.                     *)
LEMMA EqualSteps ==
  ASSUME NEW c, NEW l, Rises(c, l), NEW g \in 1 .. l, NEW n \in Nat \ {0}, g + n <= l,
         \A i \in 1 .. l : g < i /\ i < g + n => Middle(c, i)
  PROVE  \E x, y \in Nat : StepsBy(c, g, n, x, y) /\ c[g + 1].fps = c[g].fps + x
<1>1. l \in Nat /\ g \in Nat /\ 1 <= g /\ g <= l
  BY DEF Rises
<1> DEFINE x == c[g + 1].fps - c[g].fps
           y == c[g + 1].tps - c[g].tps
           Holds(i) == c[i + 1].fps = c[i].fps + x /\ c[i + 1].tps = c[i].tps + y
           N == {d \in Nat : d < n => Holds(g + d)}
<1>2. \A i \in 1 .. l : c[i].fps \in Nat /\ c[i].tps \in Nat
  BY DEF Rises
<1>3. x \in Nat /\ y \in Nat /\ c[g + 1].fps = c[g].fps + x /\ c[g + 1].tps = c[g].tps + y
  <2>1. g + 1 \in 1 .. l /\ g < g + 1
    BY <1>1
  <2>2. c[g].fps <= c[g + 1].fps /\ c[g].tps <= c[g + 1].tps
    BY <2>1 DEF Rises
  <2>3. QED BY <1>2, <2>1, <2>2
<1> HIDE DEF x, y
<1>4. 0 \in N
  <2>1. g + 0 = g
    BY <1>1
  <2>2. QED BY <1>3, <2>1
<1>5. ASSUME NEW d \in N PROVE d + 1 \in N
  <2>1. d \in Nat
    OBVIOUS
  <2> SUFFICES ASSUME d + 1 < n PROVE Holds(g + (d + 1))
    BY <2>1
  <2>2. Holds(g + d)
    BY <2>1
  <2> DEFINE i == g + (d + 1)
  <2>3. /\ i \in 1 .. l /\ g < i /\ i < g + n /\ i - 1 = g + d /\ (g + d) + 1 = i
        /\ i + 1 \in 1 .. l /\ i - 1 \in 1 .. l
    BY <1>1, <2>1
  <2> HIDE DEF i, N
  <2>4. c[i].fps = c[i - 1].fps + x /\ c[i].tps = c[i - 1].tps + y
    BY <2>2, <2>3
  <2>5. Middle(c, i)
    BY <2>3
  <2>6. Holds(i)
    BY <1>2, <1>3, <2>3, <2>4, <2>5 DEF Middle
  <2>7. QED BY <2>6 DEF i
<1>6. N = Nat
  <2>1. N \in SUBSET Nat
    OBVIOUS
  <2> HIDE DEF N
  <2>2. QED BY <1>4, <1>5, <2>1, NatSetInduction
<1>7. ASSUME NEW i \in g .. (g + n), i < g + n PROVE Holds(i)
  <2>1. i - g \in Nat /\ i - g < n /\ g + (i - g) = i
    BY <1>1, <1>7
  <2> HIDE DEF Holds
  <2>2. QED BY <1>6, <2>1
<1>8. StepsBy(c, g, n, x, y)
  BY <1>7 DEF StepsBy
<1>9. QED BY <1>3, <1>8

(* r is c without some points that lie on a line with their neighbours: e says *)
(* where its points are in c.                                                  *)
Thins(c, l, r, m, e) ==
  /\ m \in Nat \ {0} /\ e \in [1 .. m -> 1 .. l] /\ e[1] = 1
  /\ \A i, j \in 1 .. m : i < j => e[i] < e[j]
  /\ \A j \in 1 .. m : r[j] = c[e[j]]
  /\ \A j \in 1 .. m, i \in 1 .. l : j < m /\ e[j] < i /\ i < e[j + 1] => Middle(c, i)

LEMMA Segment ==
  ASSUME NEW c, NEW l, Rises(c, l), NEW r, NEW m, NEW e, Thins(c, l, r, m, e),
         NEW j \in 1 .. m, j < m
  PROVE  \E n \in Nat \ {0}, x, y \in Nat :
           /\ e[j] \in 1 .. l /\ e[j + 1] = e[j] + n /\ e[j] + n <= l
           /\ StepsBy(c, e[j], n, x, y)
<1>1. l \in Nat /\ m \in Nat /\ j + 1 \in 1 .. m /\ j < j + 1
  BY DEF Rises, Thins
<1>2. e[j] \in 1 .. l /\ e[j + 1] \in 1 .. l /\ e[j] < e[j + 1]
  BY <1>1 DEF Thins
<1> DEFINE n == e[j + 1] - e[j]
           g == e[j]
<1>3. n \in Nat \ {0} /\ e[j + 1] = g + n /\ g + n <= l /\ g \in 1 .. l
  BY <1>1, <1>2
<1>4. \A i \in 1 .. l : g < i /\ i < g + n => Middle(c, i)
  BY <1>3 DEF Thins
<1> HIDE DEF g, n
<1>5. PICK x \in Nat, y \in Nat : StepsBy(c, g, n, x, y)
  BY <1>3, <1>4, EqualSteps
<1>6. QED BY <1>3, <1>5 DEF g

(* Both curves have the same area up to a point of both.                       *)
LEMMA ThinArea ==
  ASSUME NEW c, NEW l, Rises(c, l), NEW r, NEW m, NEW e, Thins(c, l, r, m, e), Rises(r, m),
         NEW j \in 1 .. m
  PROVE  Trapezoids(r, j) = Trapezoids(c, e[j])
<1>1. l \in Nat /\ m \in Nat \ {0} /\ e[1] = 1 /\ \A i \in 1 .. m : e[i] \in 1 .. l /\ r[i] = c[e[i]]
  BY DEF Rises, Thins
<1> DEFINE Holds(i) == Trapezoids(r, i) = Trapezoids(c, e[i])
           N == {d \in Nat : d + 1 <= m => Holds(d + 1)}
<1>2. 0 \in N
  <2>1. 1 \in 1 .. m /\ 1 \in 1 .. l
    BY <1>1
  <2>2. Trapezoids(r, 1) = 0 /\ Trapezoids(c, 1) = 0
    BY <2>1, AreaGrows
  <2>3. 0 + 1 = 1
    OBVIOUS
  <2>4. QED BY <1>1, <2>2, <2>3
<1>3. ASSUME NEW d \in N PROVE d + 1 \in N
  <2>1. d \in Nat
    OBVIOUS
  <2> SUFFICES ASSUME (d + 1) + 1 <= m PROVE Holds((d + 1) + 1)
    BY <2>1
  <2> DEFINE i == d + 1
  <2>2. i \in 1 .. m /\ i + 1 \in 1 .. m /\ i < m
    BY <1>1, <2>1
  <2>3. Holds(i)
    BY <1>1, <2>1, <2>2
  <2> HIDE DEF i, N
  <2>4. PICK n \in Nat \ {0}, x \in Nat, y \in Nat :
           /\ e[i] \in 1 .. l /\ e[i + 1] = e[i] + n /\ e[i] + n <= l
           /\ StepsBy(c, e[i], n, x, y)
    BY <2>2, Segment
  <2> DEFINE g == e[i]
             a == c[g].fps
             b == c[g].tps
  <2>5. n \in Nat /\ n \in 0 .. n
    OBVIOUS
  <2>6. /\ c[g + n].fps = a + n * x /\ c[g + n].tps = b + n * y
        /\ Trapezoids(c, g + n) = Trapezoids(c, g) + (n * x) * (2 * b + n * y)
    BY <2>4, <2>5, Straight
  <2>7. /\ Trapezoids(r, i + 1) = Trapezoids(r, i) + Trapezoid(r, i)
    BY <2>2, AreaGrows
  <2>8. r[i] = c[g] /\ r[i + 1] = c[g + n]
    BY <1>1, <2>2, <2>4
  <2>9. Trapezoid(r, i) = ((a + n * x) - a) * ((b + n * y) + b)
    BY <2>6, <2>8 DEF Trapezoid
  <2>10. a \in Nat /\ b \in Nat
    BY <2>4 DEF Rises
  <2> HIDE DEF g, a, b
  <2>11. ((a + n * x) - a) * ((b + n * y) + b) = (n * x) * (2 * b + n * y)
    <3>1. n * x \in Int /\ n * y \in Int
      OBVIOUS
    <3>2. (a + n * x) - a = n * x /\ (b + n * y) + b = 2 * b + n * y
      BY <2>10, <3>1
    <3>3. QED BY <3>2
  <2>12. Trapezoids(r, i + 1) = Trapezoids(c, g + n)
    BY <2>3, <2>6, <2>7, <2>9, <2>11 DEF g
  <2>13. Holds(i + 1)
    BY <2>4, <2>12 DEF g
  <2>14. QED BY <2>13 DEF i
<1>4. N = Nat
  <2>1. N \in SUBSET Nat
    OBVIOUS
  <2> HIDE DEF N
  <2>2. QED BY <1>2, <1>3, <2>1, NatSetInduction
<1>5. j - 1 \in Nat /\ (j - 1) + 1 = j /\ j <= m
  BY <1>1
<1> HIDE DEF Holds
<1>6. Holds(j)
  BY <1>4, <1>5
<1>7. QED BY <1>6 DEF Holds

(* What partial_auc has over the rectangle, if it cuts behind the k-th point.  *)
CutArea(c, k, x, d) ==
  Trapezoids(c, k) * (c[k + 1].fps - c[k].fps) * d * d
    + (x - c[k].fps * d) * (c[k].tps * (c[k + 1].fps - c[k].fps) * d + Height(c[k], c[k + 1], x, d))

(* Scaling the width of a cut scales what is computed from it.                 *)
LEMMA CutScales ==
  ASSUME NEW T \in Int, NEW a \in Int, NEW b \in Int, NEW x \in Int, NEW y \in Int,
         NEW n \in Int, NEW m \in Int, NEW z \in Int, NEW d \in Int
  PROVE  T * (n * x) * d * d
           + (z - a * d) * (b * (n * x) * d + (b * (n * x) * d + (z - a * d) * (n * y)))
         = n * ((T + (m * x) * (2 * b + m * y)) * x * d * d
                + (z - (a + m * x) * d)
                  * ((b + m * y) * x * d + ((b + m * y) * x * d + (z - (a + m * x) * d) * y)))
OBVIOUS

(* Wherever it falls, a cut has the same share of both curves.                 *)
LEMMA ThinCut ==
  ASSUME NEW c, NEW l, Rises(c, l), NEW r, NEW m, NEW e, Thins(c, l, r, m, e), Rises(r, m),
         NEW j \in 1 .. m, j < m, NEW k \in 1 .. l, e[j] <= k, k < e[j + 1],
         NEW z \in Int, NEW d \in Int
  PROVE  \E n \in Nat \ {0} :
           /\ CutArea(r, j, z, d) = n * CutArea(c, k, z, d)
           /\ r[j + 1].fps - r[j].fps = n * (c[k + 1].fps - c[k].fps)
<1>1. PICK n \in Nat \ {0}, x \in Nat, y \in Nat :
         /\ e[j] \in 1 .. l /\ e[j + 1] = e[j] + n /\ e[j] + n <= l
         /\ StepsBy(c, e[j], n, x, y)
  BY Segment
<1> DEFINE g == e[j]
           s == k - g
           a == c[g].fps
           b == c[g].tps
           T == Trapezoids(c, g)
<1>2. l \in Nat /\ n \in Nat /\ g \in Nat /\ s \in 0 .. n /\ s + 1 \in 0 .. n /\ n \in 0 .. n
      /\ g + s = k /\ g + (s + 1) = k + 1
  BY <1>1 DEF Rises
<1>3. a \in Nat /\ b \in Nat /\ T \in Nat
  BY <1>1, AreaGrows DEF Rises
<1>4. \A t \in 0 .. n : /\ c[g + t].fps = a + t * x
                        /\ c[g + t].tps = b + t * y
                        /\ Trapezoids(c, g + t) = T + (t * x) * (2 * b + t * y)
  BY <1>1, <1>2, Straight
<1>5. r[j] = c[g] /\ r[j + 1] = c[g + n] /\ Trapezoids(r, j) = T
  <2>1. j + 1 \in 1 .. m /\ \A i \in 1 .. m : r[i] = c[e[i]]
    BY DEF Thins
  <2>2. r[j] = c[e[j]] /\ r[j + 1] = c[e[j + 1]]
    BY <2>1
  <2>3. Trapezoids(r, j) = Trapezoids(c, e[j])
    BY ThinArea
  <2>4. QED BY <1>1, <2>2, <2>3
<1>6. r[j].fps = a /\ r[j].tps = b
  BY <1>5
<1> HIDE DEF a, b, T, g, s
<1>7. /\ c[k].fps = a + s * x /\ c[k].tps = b + s * y
      /\ Trapezoids(c, k) = T + (s * x) * (2 * b + s * y)
  BY <1>2, <1>4
<1>8. c[k + 1].fps = a + (s + 1) * x /\ c[k + 1].tps = b + (s + 1) * y
  BY <1>2, <1>4
<1>9. r[j + 1].fps = a + n * x /\ r[j + 1].tps = b + n * y
  BY <1>2, <1>4, <1>5
<1>10. s \in Int /\ n \in Int /\ x \in Int /\ y \in Int /\ a \in Int /\ b \in Int /\ T \in Int
  BY <1>2, <1>3
<1>11. /\ c[k + 1].fps - c[k].fps = x /\ c[k + 1].tps - c[k].tps = y
  <2>1. \A p, t, v \in Int : (p + (t + 1) * v) - (p + t * v) = v
    OBVIOUS
  <2>2. QED BY <1>7, <1>8, <1>10, <2>1
<1>12. /\ r[j + 1].fps - r[j].fps = n * x /\ r[j + 1].tps - r[j].tps = n * y
  <2>1. n * x \in Int /\ n * y \in Int
    BY <1>10
  <2>2. QED BY <1>6, <1>9, <1>10, <2>1
<1>13. CutArea(r, j, z, d) =
         T * (n * x) * d * d
           + (z - a * d) * (b * (n * x) * d + (b * (n * x) * d + (z - a * d) * (n * y)))
  BY <1>5, <1>6, <1>12 DEF CutArea, Height
<1>14. CutArea(c, k, z, d) =
         (T + (s * x) * (2 * b + s * y)) * x * d * d
           + (z - (a + s * x) * d)
             * ((b + s * y) * x * d + ((b + s * y) * x * d + (z - (a + s * x) * d) * y))
  BY <1>7, <1>11 DEF CutArea, Height
<1>15. CutArea(r, j, z, d) = n * CutArea(c, k, z, d)
  BY <1>10, <1>13, <1>14, CutScales
<1>16. QED BY <1>11, <1>12, <1>15

(* What Kept leaves out of a curve are points on a line with their neighbours. *)
LEMMA KeptThins ==
  ASSUME NEW points, points \in Seq([fps : Nat, tps : Nat, score : Nat])
  PROVE  \E e : Thins(Curve(points), Len(Curve(points)), Curve(Kept(points)), Len(Curve(Kept(points))), e)
<1> DEFINE P == [fps : Nat, tps : Nat, score : Nat]
           m == Len(points)
           S == {i \in DOMAIN points : ~OnLine(points, i)}
           n == Cardinality(S)
           a == Ascending(S)
           p == Kept(points)
           c == Curve(points)
           r == Curve(p)
           e == [j \in 1 .. (n + 1) |-> IF j = 1 THEN 1 ELSE a[j - 1] + 1]
<1>1. /\ S \in SUBSET (1 .. m) /\ n \in Nat /\ a \in [1 .. n -> S]
      /\ \A i, j \in 1 .. n : i < j => a[i] < a[j]
      /\ \A s \in S : \E i \in 1 .. n : a[i] = s
      /\ p = [i \in 1 .. n |-> points[a[i]]]
  BY KeptIs
<1>2. /\ m \in Nat /\ Len(c) = m + 1 /\ DOMAIN points = 1 .. m
      /\ c[1] = [fps |-> 0, tps |-> 0, score |-> 0]
      /\ \A i \in 1 .. m : c[i + 1] = points[i]
  BY CurveIs, LenProperties
<1>3. \A i \in 1 .. m : i \in S \/ OnLine(points, i)
  BY <1>2
<1> HIDE DEF S, n, a
<1>4. \A i \in 1 .. n : a[i] \in 1 .. m /\ a[i] \in S /\ p[i] = points[a[i]]
  BY <1>1
<1>5. /\ Len(r) = n + 1 /\ r[1] = [fps |-> 0, tps |-> 0, score |-> 0]
      /\ \A i \in 1 .. n : r[i + 1] = p[i]
  <2>1. p \in [1 .. n -> P]
    <3>1. \A i \in 1 .. m : points[i] \in P
      BY <1>2, ElementOfSeq
    <3>2. QED BY <1>1, <1>4, <3>1
  <2>2. p \in Seq(P) /\ Len(p) = n
    BY <1>1, <2>1, FunctionIsSeq
  <2> HIDE DEF p
  <2>3. QED BY <2>2, CurveIs
<1> HIDE DEF m, p, c, r
<1>6. ASSUME NEW j \in 1 .. (n + 1)
      PROVE  \/ j = 1 /\ e[j] = 1
             \/ j > 1 /\ j - 1 \in 1 .. n /\ (j - 1) + 1 = j /\ e[j] = a[j - 1] + 1
  BY <1>1
<1> HIDE DEF e
<1>7. ASSUME NEW j \in 1 .. (n + 1) PROVE e[j] \in 1 .. (m + 1) /\ r[j] = c[e[j]]
  <2>1. CASE j = 1 /\ e[j] = 1
    BY <1>2, <1>5, <2>1
  <2>2. CASE j > 1 /\ j - 1 \in 1 .. n /\ (j - 1) + 1 = j /\ e[j] = a[j - 1] + 1
    <3>1. a[j - 1] \in 1 .. m /\ p[j - 1] = points[a[j - 1]]
      BY <1>4, <2>2
    <3>2. r[j] = p[j - 1]
      BY <1>5, <2>2
    <3>3. c[e[j]] = points[a[j - 1]]
      BY <1>2, <2>2, <3>1
    <3>4. e[j] \in 1 .. (m + 1)
      <4>1. m \in Nat /\ a[j - 1] \in Int /\ 1 <= a[j - 1] /\ a[j - 1] <= m
        BY <1>2, <3>1
      <4>2. QED BY <2>2, <4>1
    <3>5. QED BY <3>1, <3>2, <3>3, <3>4
  <2>3. QED BY <1>6, <2>1, <2>2
<1>8. ASSUME NEW i \in 1 .. (n + 1), NEW j \in 1 .. (n + 1), i < j PROVE e[i] < e[j]
  <2>1. j > 1 /\ j - 1 \in 1 .. n /\ e[j] = a[j - 1] + 1
    BY <1>1, <1>6, <1>8
  <2>2. a[j - 1] \in 1 .. m
    BY <1>4, <2>1
  <2>3. CASE i = 1 /\ e[i] = 1
    BY <1>2, <2>1, <2>2, <2>3
  <2>4. CASE i > 1 /\ i - 1 \in 1 .. n /\ e[i] = a[i - 1] + 1
    <3>1. i - 1 < j - 1 /\ a[i - 1] \in 1 .. m
      BY <1>1, <1>4, <1>8, <2>4
    <3>2. a[i - 1] < a[j - 1]
      BY <1>1, <2>1, <2>4, <3>1
    <3>3. a[i - 1] \in Int /\ a[j - 1] \in Int
      BY <2>2, <3>1
    <3>4. a[i - 1] + 1 < a[j - 1] + 1
      BY <3>2, <3>3
    <3>5. QED BY <2>1, <2>4, <3>4
  <2>5. QED BY <1>6, <2>3, <2>4
<1>9. ASSUME NEW j \in 1 .. (n + 1), NEW i \in 1 .. (m + 1), j < n + 1, e[j] < i, i < e[j + 1]
      PROVE  Middle(c, i)
  <2>1. j + 1 \in 1 .. (n + 1) /\ j \in 1 .. n /\ (j + 1) - 1 = j
    BY <1>1, <1>9
  <2>2. e[j + 1] = a[j] + 1 /\ a[j] \in 1 .. m
    <3>1. ~(j + 1 = 1)
      BY <1>1, <2>1
    <3>2. e[j + 1] = a[(j + 1) - 1] + 1
      BY <1>6, <2>1, <3>1
    <3>3. QED BY <1>4, <2>1, <3>2
  <2> DEFINE h == i - 1
  <2>3. e[j] \in 1 .. (m + 1)
    BY <1>7
  <2>4. h \in 1 .. m /\ h < a[j] /\ h + 1 = i /\ e[j] <= h
    <3>1. m \in Nat /\ e[j] \in Int /\ a[j] \in Int /\ i \in Int /\ a[j] <= m /\ 1 <= e[j]
      BY <1>2, <2>2, <2>3
    <3>2. e[j] < i /\ i < a[j] + 1
      BY <1>9, <2>2
    <3>3. QED BY <3>1, <3>2
  <2>5. h \notin S
    <3> SUFFICES ASSUME h \in S PROVE FALSE
      OBVIOUS
    <3>1. PICK g \in 1 .. n : a[g] = h
      BY <1>1
    <3>2. g < j
      <4>1. ~(j < g) /\ j # g
        <5>1. ~(a[j] < h) /\ a[j] # h
          <6>1. h \in Int /\ a[j] \in Int /\ h < a[j]
            BY <2>2, <2>4
          <6> HIDE DEF h
          <6>2. QED BY <6>1
        <5> HIDE DEF h
        <5>2. QED BY <1>1, <2>1, <3>1, <5>1
      <4>2. QED BY <1>1, <2>1, <4>1
    <3>3. j > 1 /\ j - 1 \in 1 .. n /\ e[j] = a[j - 1] + 1 /\ a[j - 1] \in 1 .. m
      <4>1. j # 1
        BY <1>1, <3>2
      <4>2. QED BY <1>4, <1>6, <4>1
    <3>4. g = j - 1 \/ g < j - 1
      BY <1>1, <3>2, <3>3
    <3>5. a[g] <= a[j - 1]
      <4>1. g = j - 1 \/ a[g] < a[j - 1]
        BY <1>1, <3>3, <3>4
      <4>2. a[g] \in 1 .. m
        BY <1>4
      <4>3. a[g] \in Int /\ a[j - 1] \in Int
        BY <3>3, <4>2
      <4>4. QED BY <4>1, <4>3
    <3>6. h \in Int /\ a[j - 1] \in Int /\ h <= a[j - 1] /\ a[j - 1] + 1 <= h
      BY <2>4, <3>1, <3>3, <3>5
    <3> HIDE DEF h
    <3>7. QED BY <3>6
  <2>6. OnLine(points, h)
    BY <1>3, <2>4, <2>5
  <2>7. h > 1 /\ h < m
    BY <2>6 DEF OnLine, m
  <2> HIDE DEF h
  <2>8. h - 1 \in 1 .. m /\ h + 1 \in 1 .. m /\ (h - 1) + 1 = h /\ (h + 1) + 1 = i + 1 /\ h = i - 1
    BY <1>2, <2>4, <2>7
  <2>9. c[i] = points[h] /\ c[i + 1] = points[h + 1] /\ c[i - 1] = points[h - 1]
    BY <1>2, <2>4, <2>8
  <2>10. QED BY <2>6, <2>9 DEF OnLine, Middle
<1>10. n + 1 \in Nat \ {0} /\ e[1] = 1 /\ e \in [1 .. (n + 1) -> 1 .. (m + 1)]
  <2>1. 1 \in 1 .. (n + 1) /\ n + 1 \in Nat \ {0}
    BY <1>1
  <2>2. e[1] = 1
    BY <2>1 DEF e
  <2>3. e \in [1 .. (n + 1) -> 1 .. (m + 1)]
    BY <1>7 DEF e
  <2>4. QED BY <2>1, <2>2, <2>3
<1>11. Thins(c, m + 1, r, n + 1, e)
  BY <1>7, <1>8, <1>9, <1>10 DEF Thins
<1>12. QED BY <1>2, <1>5, <1>11 DEF c, r, p

(* The report, by the cut.                                                     *)
LEMMA AucIs ==
  \A c, q : PartialAuc(c, q) =
    <<CutArea(c, Stop(c, q), Size(normal) * q[1], q[2]),
      Rectangle(q) * (c[Stop(c, q) + 1].fps - c[Stop(c, q)].fps)>>
BY DEF PartialAuc, CutArea

(* The report is the same fraction with and without the points left out.       *)
LEMMA ThinReport ==
  ASSUME normal \in [Scores -> Nat], attack \in [Scores -> Nat], NEW q \in Target, Size(normal) > 0
  PROVE  LET auc == PartialAuc(RocCurve, q)
             all == PartialAuc(Curve(AllPoints), q)
         IN  \E n \in Nat \ {0} : auc[1] = n * all[1] /\ auc[2] = n * all[2]
<1> DEFINE c == Curve(AllPoints)
           l == Len(c)
           r == Curve(Kept(AllPoints))
           m == Len(r)
           k == Stop(c, q)
           j == Stop(r, q)
           z == Size(normal) * q[1]
<1>1. OnCurve(AllPoints) /\ OnCurve(Kept(AllPoints)) /\ RocCurve = r
  BY AllOnCurve, RocOnCurve
<1>2. Rises(c, l) /\ Rises(r, m)
  BY <1>1, CurveRises
<1>3. PICK e : Thins(c, l, r, m, e)
  <2>1. AllPoints \in Seq([fps : Nat, tps : Nat, score : Nat])
    BY <1>1 DEF OnCurve
  <2>2. QED BY <2>1, KeptThins
<1>4. k \in 1 .. l /\ k < l /\ \A i \in 1 .. l : Within(c[i], q) <=> i <= k
  BY <1>1, StopFacts
<1>5. j \in 1 .. m /\ j < m /\ \A i \in 1 .. m : Within(r[i], q) <=> i <= j
  BY <1>1, StopFacts
<1>6. z \in Int /\ q[2] \in Int
  BY SizeFacts DEF Target
<1> HIDE DEF c, l, r, m, k, j, z
<1>7. e[j] <= k /\ k < e[j + 1]
  <2>1. l \in Nat /\ m \in Nat
    BY <1>2 DEF Rises
  <2>2. j + 1 \in 1 .. m /\ j <= j /\ ~(j + 1 <= j)
    BY <1>5, <2>1
  <2>3. /\ e[j] \in 1 .. l /\ e[j + 1] \in 1 .. l
        /\ r[j] = c[e[j]] /\ r[j + 1] = c[e[j + 1]]
    BY <1>3, <1>5, <2>2 DEF Thins
  <2>4. Within(c[e[j]], q) /\ ~Within(c[e[j + 1]], q)
    BY <1>5, <2>2, <2>3
  <2>5. e[j] <= k /\ ~(e[j + 1] <= k)
    BY <1>4, <2>3, <2>4
  <2>6. QED BY <1>4, <2>1, <2>3, <2>5
<1>8. PICK n \in Nat \ {0} :
         /\ CutArea(r, j, z, q[2]) = n * CutArea(c, k, z, q[2])
         /\ r[j + 1].fps - r[j].fps = n * (c[k + 1].fps - c[k].fps)
  BY <1>2, <1>3, <1>4, <1>5, <1>6, <1>7, ThinCut
<1> DEFINE w == c[k + 1].fps - c[k].fps
<1>9. Rectangle(q) * (n * w) = n * (Rectangle(q) * w)
  <2>1. Rectangle(q) \in Int
    <3>1. q[1] \in Int /\ q[2] \in Int /\ Size(normal) \in Int /\ Size(attack) \in Int
      BY SizeFacts DEF Target
    <3>2. QED BY <3>1 DEF Rectangle
  <2>2. w \in Int
    <3>1. l \in Nat
      BY <1>2 DEF Rises
    <3>2. k + 1 \in 1 .. l
      BY <1>4, <3>1
    <3>3. c[k].fps \in Nat /\ c[k + 1].fps \in Nat
      BY <1>2, <1>4, <3>2 DEF Rises
    <3>4. QED BY <3>3
  <2> HIDE DEF w
  <2>3. QED BY <2>1, <2>2
<1>10. PartialAuc(r, q) = <<CutArea(r, j, z, q[2]), Rectangle(q) * (r[j + 1].fps - r[j].fps)>>
  BY AucIs DEF j, z
<1>11. PartialAuc(c, q) = <<CutArea(c, k, z, q[2]), Rectangle(q) * w>>
  BY AucIs DEF k, z
<1>12. /\ PartialAuc(r, q)[1] = n * PartialAuc(c, q)[1]
       /\ PartialAuc(r, q)[2] = n * PartialAuc(c, q)[2]
  BY <1>8, <1>9, <1>10, <1>11
<1>13. QED BY <1>1, <1>12 DEF c

(* Cut anywhere, the area is at most the rectangle's up to there.              *)
LEMMA CutBounded ==
  ASSUME NEW c, NEW l, Rises(c, l), NEW n \in Nat, \A i \in 1 .. l : c[i].tps <= n,
         c[1].fps = 0, NEW k \in 1 .. l, k < l, NEW z \in Int, NEW d \in Nat,
         c[k].fps * d <= z, z <= c[k + 1].fps * d
  PROVE  LET w == c[k + 1].fps - c[k].fps
         IN  /\ CutArea(c, k, z, d) <= (2 * n) * (w * d) * z
             /\ Early(c, l, n) /\ w # 0 => CutArea(c, k, z, d) = (2 * n) * (w * d) * z
<1> DEFINE f == c[k].fps
           b == c[k].tps
           w == c[k + 1].fps - c[k].fps
           y == c[k + 1].tps - c[k].tps
           T == Trapezoids(c, k)
           X == z - f * d
<1>1. /\ k + 1 \in 1 .. l /\ k < k + 1
  BY DEF Rises
<1>2. /\ f \in Nat /\ b \in Nat /\ c[k + 1].fps \in Nat /\ c[k + 1].tps \in Nat
      /\ f <= c[k + 1].fps /\ b <= c[k + 1].tps /\ c[k + 1].tps <= n
  BY <1>1 DEF Rises
<1>3. w \in Nat /\ y \in Nat /\ b + y <= n /\ c[k + 1].fps = f + w
  BY <1>2
<1>4. T \in Nat /\ T <= 2 * (f * n) /\ (Early(c, l, n) => T = 2 * (f * n))
  BY AreaGrows, AreaBounded
<1>5. ASSUME Early(c, l, n), w # 0 PROVE b = n /\ y = 0
  <2>1. c[k].fps # c[k + 1].fps
    BY <1>2, <1>5
  <2>2. c[k].tps = n /\ c[k + 1].tps = n
    BY <1>5, <2>1 DEF Early
  <2>3. QED BY <2>2
<1>6. CutArea(c, k, z, d) = T * w * d * d + X * (b * w * d + (b * w * d + X * y))
  BY DEF CutArea, Height
<1>7. f * d <= z /\ z <= (f + w) * d
  BY <1>3
<1> HIDE DEF f, b, w, y, T
<1>8. X \in Nat /\ w * d \in Nat /\ X <= w * d
  <2>1. f * d \in Int /\ w * d \in Nat /\ (f + w) * d = f * d + w * d
    BY <1>2, <1>3
  <2>2. QED BY <1>7, <2>1
<1> DEFINE v == w * d
<1>9. T * w * d * d = T * (v * d)
  BY <1>3, <1>4
<1>10. b * w * d + (b * w * d + X * y) = 2 * (b * v) + X * y
  <2>1. b * w * d = b * v /\ b * v \in Int /\ X * y \in Int
    BY <1>2, <1>3, <1>8
  <2> HIDE DEF v
  <2>2. QED BY <2>1
<1>11. z = f * d + X
  <2>1. f * d \in Int
    BY <1>2
  <2>2. QED BY <2>1
<1> HIDE DEF X, v
<1>12. v \in Nat /\ X \in Nat /\ X <= v
  BY <1>8 DEF v
<1>13. (2 * n) * v * z = (2 * (f * n)) * (v * d) + X * ((2 * n) * v)
  <2>1. \A p, q, r, s \in Int : (2 * n) * p * (q * r + s) = (2 * (q * n)) * (p * r) + s * ((2 * n) * p)
    OBVIOUS
  <2>2. f \in Int /\ v \in Int /\ X \in Int /\ d \in Int
    BY <1>2, <1>12
  <2>3. QED BY <1>11, <2>1, <2>2
<1>14. v * d \in Nat /\ 2 * (f * n) \in Nat
  BY <1>2, <1>12
<1>15. T * (v * d) <= (2 * (f * n)) * (v * d)
  BY <1>4, <1>14, TimesGrows
<1>16. 2 * (b * v) + X * y <= (2 * n) * v
  <2>1. X * y <= v * y
    BY <1>3, <1>12, TimesGrows
  <2>2. (2 * b + y) * v <= (2 * n) * v
    <3>1. 2 * b + y \in Int /\ 2 * n \in Int /\ 2 * b + y <= 2 * n
      BY <1>2, <1>3
    <3>2. QED BY <1>12, <3>1, TimesGrows
  <2>3. (2 * b + y) * v = 2 * (b * v) + v * y
    BY <1>2, <1>3, <1>12
  <2>4. X * y \in Int /\ v * y \in Int /\ b * v \in Int /\ (2 * n) * v \in Int
    BY <1>2, <1>3, <1>12
  <2>5. QED BY <2>1, <2>2, <2>3, <2>4
<1> DEFINE U == 2 * (b * v) + X * y
<1>17. X * U <= X * ((2 * n) * v)
  <2>1. U \in Int /\ (2 * n) * v \in Int
    BY <1>2, <1>3, <1>12
  <2>2. U * X <= ((2 * n) * v) * X
    BY <1>12, <1>16, <2>1, TimesGrows
  <2> HIDE DEF U
  <2>3. U * X = X * U /\ ((2 * n) * v) * X = X * ((2 * n) * v)
    BY <1>12, <2>1
  <2>4. QED BY <2>2, <2>3
<1>18. CutArea(c, k, z, d) = T * (v * d) + X * U
  BY <1>6, <1>9, <1>10
<1>19. /\ T * (v * d) \in Int /\ X * U \in Int
       /\ (2 * (f * n)) * (v * d) \in Int /\ X * ((2 * n) * v) \in Int
  BY <1>2, <1>3, <1>4, <1>12
<1>20. CutArea(c, k, z, d) <= (2 * n) * v * z
  <2> HIDE DEF U
  <2>1. QED BY <1>13, <1>15, <1>17, <1>18, <1>19
<1>21. ASSUME Early(c, l, n), w # 0 PROVE CutArea(c, k, z, d) = (2 * n) * v * z
  <2>1. T = 2 * (f * n)
    BY <1>4, <1>21
  <2>2. b = n /\ y = 0
    BY <1>5, <1>21
  <2>3. U = (2 * n) * v
    <3>1. X * 0 = 0 /\ 2 * (n * v) = (2 * n) * v /\ 2 * (n * v) \in Int
      BY <1>12
    <3>2. QED BY <2>2, <3>1
  <2> HIDE DEF U
  <2>4. QED BY <1>13, <1>18, <2>1, <2>3
<1>22. QED BY <1>20, <1>21 DEF v, w

(* Every attack has a lower score than every normal flow.                      *)
Separated == \A s, t \in Scores : attack[s] > 0 /\ normal[t] > 0 => s < t

(* The curve of a classifier that separates the classes climbs first.          *)
LEMMA SeparatedIsEarly ==
  ASSUME normal \in [Scores -> Nat], attack \in [Scores -> Nat], Separated
  PROVE  Early(Curve(AllPoints), Len(Curve(AllPoints)), Size(attack))
<1> DEFINE c == Curve(AllPoints)
           l == Len(c)
<1>1. /\ l \in Nat /\ c[l].tps = Size(attack)
      /\ \A i \in 1 .. l : /\ c[i].score \in 0 .. Top
                           /\ c[i].fps = Upto(normal, c[i].score) /\ c[i].tps = Upto(attack, c[i].score)
      /\ \A i, j \in 1 .. l : i < j => c[i].score < c[j].score
  BY AllOnCurve, CurveFacts
<1>2. \A s \in Scores : normal[s] + attack[s] > 0 => \E j \in 1 .. l : c[j].score = s
  <2>1. AllPoints \in Seq([fps : Nat, tps : Nat, score : Nat])
    BY AllOnCurve DEF OnCurve
  <2>2. l = Len(AllPoints) + 1 /\ Len(AllPoints) \in Nat
        /\ \A i \in 1 .. Len(AllPoints) : c[i + 1] = AllPoints[i]
    BY <2>1, CurveIs
  <2> HIDE DEF c, l
  <2>3. ASSUME NEW s \in Scores, normal[s] + attack[s] > 0 PROVE \E j \in 1 .. l : c[j].score = s
    <3>1. PICK i \in 1 .. Len(AllPoints) : AllPoints[i].score = s
      BY <2>3, AllOnCurve
    <3>2. i + 1 \in 1 .. l /\ c[i + 1].score = s
      BY <2>2, <3>1
    <3>3. QED BY <3>2
  <2>4. QED BY <2>3
<1> HIDE DEF c, l
<1> SUFFICES ASSUME NEW i \in 1 .. l, i < l, c[i].fps # c[i + 1].fps
             PROVE  c[i].tps = Size(attack) /\ c[i + 1].tps = Size(attack)
  BY DEF Early, c, l
<1> DEFINE u == c[i].score
           v == c[i + 1].score
<1>3. i + 1 \in 1 .. l /\ i < i + 1 /\ i \in Nat
  BY <1>1
<1>4. u \in 0 .. Top /\ v \in 0 .. Top /\ u < v /\ Top \in Nat
  BY <1>1, <1>3, MetricsAssumption
<1>5. /\ c[i].fps = Upto(normal, u) /\ c[i + 1].fps = Upto(normal, v)
      /\ c[i].tps = Upto(attack, u) /\ c[i + 1].tps = Upto(attack, v)
  BY <1>1, <1>3
<1>6. \A x \in Scores : normal[x] \in Nat /\ attack[x] \in Nat
  OBVIOUS
<1> HIDE DEF u, v
<1>7. PICK t \in (u + 1) .. v : normal[t] # 0
  <2>1. v \in u .. Top
    BY <1>4
  <2>2. Upto(normal, u) # Upto(normal, v)
    BY <1>5
  <2>3. QED BY <1>4, <2>1, <2>2, UptoGrows
<1>8. t \in Scores /\ normal[t] > 0 /\ normal[t] + attack[t] > 0 /\ t <= v
  <2>1. t \in Scores /\ t <= v
    BY <1>4 DEF Scores
  <2>2. QED BY <1>6, <1>7, <2>1
<1>9. ASSUME NEW x \in (u + 1) .. Top PROVE attack[x] = 0
  <2> SUFFICES ASSUME attack[x] # 0 PROVE FALSE
    OBVIOUS
  <2>1. x \in Scores /\ u < x
    BY <1>4 DEF Scores
  <2>2. attack[x] > 0 /\ normal[x] + attack[x] > 0
    BY <1>6, <2>1
  <2>3. x < t
    BY <1>8, <2>1, <2>2 DEF Separated
  <2>4. PICK j \in 1 .. l : c[j].score = x
    BY <1>2, <2>1, <2>2
  <2>5. x < v
    <3>1. x \in Int /\ t \in Int /\ v \in Int
      BY <1>4
    <3>2. QED BY <1>8, <2>3, <3>1
  <2>6. ~(j = i) /\ ~(j < i)
    <3>1. j = i => x = u
      BY <2>4 DEF u
    <3>2. j < i => x < u
      BY <1>1, <2>4 DEF u
    <3>3. x \in Int /\ u \in Int
      BY <1>4
    <3>4. QED BY <2>1, <3>1, <3>2, <3>3
  <2>7. ~(j = i + 1) /\ ~(i + 1 < j)
    <3>1. j = i + 1 => x = v
      BY <2>4 DEF v
    <3>2. i + 1 < j => v < x
      BY <1>1, <1>3, <2>4 DEF v
    <3>3. x \in Int /\ v \in Int
      BY <1>4
    <3>4. QED BY <2>5, <3>1, <3>2, <3>3
  <2>8. j \in Int
    OBVIOUS
  <2>9. QED BY <1>3, <2>6, <2>7, <2>8
<1>10. Upto(attack, u) = Size(attack)
  <2>1. Top \in u .. Top
    BY <1>4
  <2>2. Upto(attack, u) = Upto(attack, Top)
    BY <1>4, <1>9, <2>1, UptoGrows
  <2>3. QED BY <2>2 DEF Size
<1>11. Upto(attack, v) = Size(attack)
  <2>1. Top \in v .. Top
    BY <1>4
  <2>2. \A x \in (v + 1) .. Top : attack[x] = 0
    <3>1. \A x \in (v + 1) .. Top : x \in (u + 1) .. Top
      BY <1>4
    <3>2. QED BY <1>9, <3>1
  <2>3. Upto(attack, v) = Upto(attack, Top)
    BY <1>4, <2>1, <2>2, UptoGrows
  <2>4. QED BY <2>3 DEF Size
<1>12. QED BY <1>5, <1>10, <1>11

(* Over all points, the area is at most the rectangle's, and all of it if the  *)
(* classes are separated.                                                      *)
LEMMA AllReport ==
  ASSUME normal \in [Scores -> Nat], attack \in [Scores -> Nat], NEW q \in Target,
         Size(normal) > 0, Size(attack) > 0
  PROVE  LET all == PartialAuc(Curve(AllPoints), q)
         IN  all[1] <= all[2] /\ (Separated => all[1] = all[2])
<1> DEFINE c == Curve(AllPoints)
           l == Len(c)
           k == Stop(c, q)
           z == Size(normal) * q[1]
           w == c[k + 1].fps - c[k].fps
           n == Size(attack)
<1>1. OnCurve(AllPoints)
  BY AllOnCurve
<1>2. Rises(c, l) /\ c[1].fps = 0 /\ \A i \in 1 .. l : c[i].tps <= n
  BY <1>1, CurveRises
<1>3. k \in 1 .. l /\ k < l /\ \A i \in 1 .. l : Within(c[i], q) <=> i <= k
  BY <1>1, StopFacts
<1>4. z \in Nat /\ q[1] \in Nat /\ q[2] \in Nat /\ n \in Nat /\ Size(normal) \in Nat
  BY SizeFacts DEF Target
<1>5. Separated => Early(c, l, n)
  BY SeparatedIsEarly
<1> HIDE DEF c, l, k, n
<1>6. k + 1 \in 1 .. l /\ k <= k /\ ~(k + 1 <= k)
  BY <1>2, <1>3 DEF Rises
<1>7. c[k].fps \in Nat /\ c[k + 1].fps \in Nat
  BY <1>2, <1>3, <1>6 DEF Rises
<1>8. Within(c[k], q) /\ ~Within(c[k + 1], q)
  BY <1>3, <1>6
<1>9. c[k].fps * q[2] <= z /\ z <= c[k + 1].fps * q[2]
  <2>1. c[k].fps * q[2] \in Int /\ c[k + 1].fps * q[2] \in Int
    BY <1>4, <1>7
  <2>2. c[k].fps * q[2] <= z /\ ~(c[k + 1].fps * q[2] <= z)
    BY <1>8 DEF Within
  <2> HIDE DEF z
  <2>3. QED BY <1>4, <2>1, <2>2
<1>10. w # 0
  BY <1>7, <1>8 DEF Within
<1> HIDE DEF z
<1>11. /\ CutArea(c, k, z, q[2]) <= (2 * n) * (w * q[2]) * z
       /\ Early(c, l, n) => CutArea(c, k, z, q[2]) = (2 * n) * (w * q[2]) * z
  <2>1. z \in Int
    BY <1>4
  <2>2. QED BY <1>2, <1>3, <1>4, <1>9, <1>10, <2>1, CutBounded
<1>12. PartialAuc(c, q) = <<CutArea(c, k, z, q[2]), Rectangle(q) * w>>
  BY AucIs DEF k, z
<1>13. Rectangle(q) * w = (2 * n) * (w * q[2]) * z
  <2>1. \A a, b, s, t, x \in Int : (2 * a * b * s * t) * x = (2 * t) * (x * b) * (s * a)
    OBVIOUS
  <2>2. w \in Int /\ q[1] \in Int /\ q[2] \in Int /\ n \in Int /\ Size(normal) \in Int
    BY <1>4, <1>7
  <2>3. Rectangle(q) = 2 * q[1] * q[2] * Size(normal) * n
    BY DEF Rectangle, n
  <2> HIDE DEF w
  <2>4. QED BY <2>1, <2>2, <2>3 DEF z
<1>14. QED BY <1>5, <1>11, <1>12, <1>13 DEF c

(* evaluation.py:102, 109: for every sample of scores and every target the     *)
(* report is a share, all of it if the classes are separated, and it is the    *)
(* same with the points that roc_curve leaves out.                             *)
THEOREM NormalisedArea == Spec => []AucIsNormalisedArea
<1>1. TypeOK => AucIsNormalisedArea
  <2> SUFFICES ASSUME TypeOK, AllScored, BothClasses
               PROVE  LET auc == PartialAuc(RocCurve, TargetFpr)
                          all == PartialAuc(Curve(AllPoints), TargetFpr)
                      IN  /\ auc[1] <= auc[2]
                          /\ Separated => auc[1] = auc[2]
                          /\ auc[1] * all[2] = all[1] * auc[2]
    BY DEF AucIsNormalisedArea, Separated
  <2> DEFINE q == TargetFpr
             auc == PartialAuc(RocCurve, q)
             all == PartialAuc(Curve(AllPoints), q)
  <2>1. /\ normal \in [Scores -> Nat] /\ attack \in [Scores -> Nat] /\ q \in Target
        /\ Size(normal) > 0 /\ Size(attack) > 0
    BY TargetIs DEF TypeOK, AllScored, BothClasses
  <2> HIDE DEF q
  <2>2. all \in Nat \X (Nat \ {0})
    BY <2>1, AllOnCurve, AreaIsFraction
  <2>3. all[1] <= all[2] /\ (Separated => all[1] = all[2])
    BY <2>1, AllReport
  <2>4. PICK n \in Nat \ {0} : auc[1] = n * all[1] /\ auc[2] = n * all[2]
    BY <2>1, ThinReport
  <2>5. all[1] \in Nat /\ all[2] \in Nat /\ n \in Nat
    BY <2>2
  <2> DEFINE x == all[1]
             y == all[2]
  <2>6. x \in Nat /\ y \in Nat /\ n \in Nat /\ x <= y /\ (Separated => x = y)
        /\ auc[1] = n * x /\ auc[2] = n * y
    BY <2>3, <2>4, <2>5
  <2> HIDE DEF auc, x, y
  <2>7. n * x <= n * y
    <3>1. x * n <= y * n
      BY <2>6, TimesGrows
    <3>2. x * n = n * x /\ y * n = n * y
      BY <2>6
    <3>3. QED BY <3>1, <3>2
  <2>8. (n * x) * y = x * (n * y)
    BY <2>6
  <2>9. auc[1] <= auc[2] /\ (Separated => auc[1] = auc[2]) /\ auc[1] * y = x * auc[2]
    BY <2>6, <2>7, <2>8
  <2>10. QED BY <2>9 DEF auc, x, y, q
<1>2. QED BY <1>1, TypeCorrect, PTL

------------------------------------------------------------------------------
(* The ranking of the results.                                                  *)

(* Fractions with positive denominators are ordered.                           *)
Fraction == Int \X (Nat \ {0})

LEMMA LargerIsOrder ==
  ASSUME NEW a \in Fraction, NEW b \in Fraction, NEW c \in Fraction
  PROVE  /\ ~Larger(a, a)
         /\ Larger(a, b) => ~Larger(b, a)
         /\ ~Larger(b, a) /\ ~Larger(c, b) => ~Larger(c, a)
         /\ Larger(a, b) /\ ~Larger(c, b) => Larger(a, c)
         /\ ~Larger(b, a) /\ Larger(b, c) => Larger(a, c)
<1>1. /\ a[1] \in Int /\ b[1] \in Int /\ c[1] \in Int
      /\ a[2] \in Nat \ {0} /\ b[2] \in Nat \ {0} /\ c[2] \in Nat \ {0}
  BY DEF Fraction
<1>2. \A x, y \in Int : x * y \in Int
  OBVIOUS
<1>3. ASSUME NEW x \in Int, NEW y \in Int, NEW z \in Nat \ {0}
      PROVE  /\ x <= y <=> x * z <= y * z
             /\ x < y <=> x * z < y * z
  <2>1. x * z \in Int /\ y * z \in Int
    BY <1>2
  <2>2. /\ x <= y => x * z <= y * z
        /\ x < y => x * z < y * z
        /\ y < x => y * z < x * z
        /\ y <= x => y * z <= x * z
    BY TimesGrows
  <2>3. QED BY <2>1, <2>2
<1> DEFINE ab == a[1] * b[2]
           ba == b[1] * a[2]
           bc == b[1] * c[2]
           cb == c[1] * b[2]
           ac == a[1] * c[2]
           ca == c[1] * a[2]
<1>4. /\ ab \in Int /\ ba \in Int /\ bc \in Int /\ cb \in Int /\ ac \in Int /\ ca \in Int
      /\ ab * c[2] = ac * b[2] /\ ba * c[2] = bc * a[2] /\ cb * a[2] = ca * b[2]
  BY <1>1
<1>5. /\ Larger(a, b) <=> ba < ab
      /\ Larger(b, a) <=> ab < ba
      /\ Larger(b, c) <=> cb < bc
      /\ Larger(c, b) <=> bc < cb
      /\ Larger(a, c) <=> ca < ac
      /\ Larger(c, a) <=> ac < ca
  BY <1>4 DEF Larger
<1> HIDE DEF ab, ba, bc, cb, ac, ca
<1>6. /\ ba < ab <=> ba * c[2] < ab * c[2]
      /\ ab < ba <=> ab * c[2] < ba * c[2]
      /\ cb < bc <=> cb * a[2] < bc * a[2]
      /\ bc < cb <=> bc * a[2] < cb * a[2]
      /\ ca < ac <=> ca * b[2] < ac * b[2]
      /\ ac < ca <=> ac * b[2] < ca * b[2]
  BY <1>1, <1>3, <1>4
<1> DEFINE x == ab * c[2]
           y == ba * c[2]
           z == cb * a[2]
<1>7. x \in Int /\ y \in Int /\ z \in Int
  BY <1>1, <1>2, <1>4
<1>8. /\ Larger(a, b) <=> y < x
      /\ Larger(b, a) <=> x < y
      /\ Larger(b, c) <=> z < y
      /\ Larger(c, b) <=> y < z
      /\ Larger(a, c) <=> z < x
      /\ Larger(c, a) <=> x < z
  BY <1>4, <1>5, <1>6
<1>9. ~Larger(a, a)
  BY <1>1, <1>2 DEF Larger
<1> HIDE DEF x, y, z
<1>10. QED BY <1>7, <1>8, <1>9

(* What results are sorted by is a fraction, the least one without a report.   *)
LEMMA KeyIs ==
  ASSUME NEW r, r.report # NoReport => r.report \in Nat \X (Nat \ {0})
  PROVE  /\ AucpKey(r) \in Fraction
         /\ r.report # NoReport => AucpKey(r) = r.report /\ AucpKey(r)[1] >= 0
         /\ r.report = NoReport => AucpKey(r) = <<-1, 1>>
<1>1. CASE r.report = NoReport
  BY <1>1 DEF AucpKey, Fraction
<1>2. CASE r.report # NoReport
  BY <1>2 DEF AucpKey, Fraction
<1>3. QED BY <1>1, <1>2

(* There is an order to sort the results in.                                   *)
LEMMA SortExists ==
  ASSUME TypeOK, RankedResults
  PROVE  \E order \in [DOMAIN results -> DOMAIN results] :
           \A i, j \in DOMAIN results : i < j => Before(order[i], order[j])
<1> DEFINE S == DOMAIN results
           n == Len(results)
           key(i) == AucpKey(results[i])
           R == {p \in S \X S : Before(p[1], p[2])}
<1>1. S = 1 .. n /\ n \in Nat
  BY AppendAny DEF TypeOK
<1>2. IsFiniteSet(S) /\ Cardinality(S) = n
  <2>1. 1 \in Int /\ n \in Int
    BY <1>1
  <2>2. IsFiniteSet(1 .. n) /\ Cardinality(1 .. n) = IF 1 > n THEN 0 ELSE n - 1 + 1
    BY <2>1, FS_Interval
  <2> HIDE DEF n, S
  <2>3. QED BY <1>1, <2>2
<1>3. \A i \in S : key(i) \in Fraction
  BY KeyIs DEF RankedResults
<1>4. \A i, j \in S : <<i, j>> \in R <=>
        Larger(key(i), key(j)) \/ (~Larger(key(j), key(i)) /\ i < j)
  BY DEF Before
<1>5. R \in SUBSET (S \X S)
  OBVIOUS
<1> HIDE DEF key, R, S, n
<1>6. \A i \in S : i \in Nat
  BY <1>1
<1>7. \A i \in S : <<i, i>> \notin R
  BY <1>3, <1>4, <1>6, LargerIsOrder
<1>8. ASSUME NEW i \in S, NEW j \in S, i # j PROVE <<i, j>> \in R \/ <<j, i>> \in R
  <2>1. i < j \/ j < i
    BY <1>6, <1>8
  <2>2. QED BY <1>3, <1>4, <2>1
<1>9. ASSUME NEW i \in S, NEW j \in S, NEW k \in S, <<i, j>> \in R, <<j, k>> \in R
      PROVE  <<i, k>> \in R
  <2> DEFINE a == key(i)
             b == key(j)
             c == key(k)
  <2>1. a \in Fraction /\ b \in Fraction /\ c \in Fraction
    BY <1>3
  <2>2. /\ Larger(a, b) \/ (~Larger(b, a) /\ i < j)
        /\ Larger(b, c) \/ (~Larger(c, b) /\ j < k)
        /\ <<i, k>> \in R <=> Larger(a, c) \/ (~Larger(c, a) /\ i < k)
    BY <1>4, <1>9
  <2> HIDE DEF a, b, c
  <2>3. CASE Larger(a, b)
    <3>1. ~Larger(c, b)
      BY <2>1, <2>2, LargerIsOrder
    <3>2. QED BY <2>1, <2>2, <2>3, <3>1, LargerIsOrder
  <2>4. CASE ~Larger(b, a) /\ i < j /\ Larger(b, c)
    BY <2>1, <2>2, <2>4, LargerIsOrder
  <2>5. CASE ~Larger(b, a) /\ i < j /\ ~Larger(c, b) /\ j < k
    <3>1. ~Larger(c, a)
      BY <2>1, <2>5, LargerIsOrder
    <3>2. i < k
      BY <1>6, <2>5
    <3>3. QED BY <2>2, <3>1, <3>2
  <2>6. QED BY <2>2, <2>3, <2>4, <2>5
<1>10. StrictOrder(R, S)
  BY <1>5, <1>7, <1>8, <1>9 DEF StrictOrder
<1>11. PICK e \in [1 .. Cardinality(S) -> S] :
         \A i, j \in 1 .. Cardinality(S) : i < j => <<e[i], e[j]>> \in R
  BY <1>2, <1>10, Enumeration
<1>12. e \in [S -> S] /\ \A i, j \in S : i < j => <<e[i], e[j]>> \in R
  BY <1>1, <1>2, <1>11
<1>13. ASSUME NEW i \in S, NEW j \in S, i < j PROVE Before(e[i], e[j])
  <2>1. <<e[i], e[j]>> \in R
    BY <1>12, <1>13
  <2>2. QED BY <2>1 DEF R
<1>14. QED BY <1>12, <1>13 DEF S

(* A report is added for the next variant; a table is sorted as it should be.  *)
LEMMA RankedStep ==
  ASSUME TypeOK, RankedResults, [Next]_vars
  PROVE  RankedResults'
<1>1. ASSUME UNCHANGED <<next, results>>, pc' # "rendered" PROVE RankedResults'
  BY <1>1 DEF RankedResults
<1>2. CASE Train
  BY <1>1, <1>2 DEF Train
<1>3. CASE Raise
  BY <1>1, <1>3 DEF Raise
<1>4. CASE ScoreFlow
  BY <1>1, <1>4 DEF ScoreFlow
<1>5. CASE Report
  <2> DEFINE new == [variant |-> next,
                     report  |-> IF BothClasses THEN PartialAuc(RocCurve, TargetFpr) ELSE NoReport,
                     trainCount |-> counts[1], validationCount |-> counts[2],
                     evalNormal |-> Size(normal), evalAttack |-> Size(attack)]
  <2>1. results' = Append(results, new) /\ next' = next + 1 /\ pc = "score" /\ pc' = "train"
    BY <1>5 DEF Report, AllScored
  <2>2. new.variant = next /\ (new.report # NoReport => new.report \in Nat \X (Nat \ {0}))
    <3>1. ASSUME BothClasses PROVE PartialAuc(RocCurve, TargetFpr) \in Nat \X (Nat \ {0})
      BY <2>1, <3>1, TargetIs, RocOnCurve, AreaIsFraction DEF BothClasses, TypeOK
    <3>2. new.report = IF BothClasses THEN PartialAuc(RocCurve, TargetFpr) ELSE NoReport
      OBVIOUS
    <3>3. QED BY <3>1, <3>2
  <2> HIDE DEF new
  <2>3. /\ DOMAIN results' = DOMAIN results \cup {Len(results) + 1}
        /\ \A i \in DOMAIN results : results'[i] = results[i]
        /\ results'[Len(results) + 1] = new
        /\ DOMAIN results = 1 .. Len(results) /\ Len(results) \in Nat
        /\ results' \in Seq(ToSet(results'))
    <3> DEFINE r == Append(results, new)
    <3>1. results \in Seq(ToSet(results))
      BY DEF TypeOK
    <3>2. /\ DOMAIN r = DOMAIN results \cup {Len(results) + 1}
          /\ \A i \in DOMAIN results : r[i] = results[i]
          /\ r[Len(results) + 1] = new
          /\ DOMAIN results = 1 .. Len(results) /\ Len(results) \in Nat
          /\ r \in Seq(ToSet(r))
      BY <3>1, AppendAny
    <3>3. results' = r
      BY <2>1
    <3> HIDE DEF r
    <3>4. QED BY <3>2, <3>3
  <2>4. Len(results') = Len(results) + 1
    <3>1. Len(results') \in Nat /\ 1 .. Len(results') = 1 .. (Len(results) + 1)
      <4>1. Len(results') \in Nat /\ DOMAIN results' = 1 .. Len(results')
        BY <2>3, LenProperties
      <4>2. DOMAIN results' = 1 .. (Len(results) + 1)
        BY <2>3
      <4>3. QED BY <4>1, <4>2
    <3>2. QED BY <2>3, <3>1
  <2>5. next' = Len(results') + 1
    BY <2>1, <2>4 DEF RankedResults
  <2>6. \A i \in DOMAIN results' :
          /\ results'[i].variant = i
          /\ results'[i].report # NoReport => results'[i].report \in Nat \X (Nat \ {0})
    <3> SUFFICES ASSUME NEW i \in DOMAIN results'
                 PROVE  /\ results'[i].variant = i
                        /\ results'[i].report # NoReport => results'[i].report \in Nat \X (Nat \ {0})
      OBVIOUS
    <3>1. CASE i \in DOMAIN results
      BY <2>3, <3>1 DEF RankedResults
    <3>2. CASE i = Len(results) + 1
      BY <2>2, <2>3, <3>2 DEF RankedResults
    <3>3. QED BY <2>3, <3>1, <3>2
  <2>7. NoReport' = NoReport
    BY DEF NoReport
  <2>8. QED BY <2>1, <2>5, <2>6, <2>7 DEF RankedResults
<1>6. CASE Render
  <2>1. /\ UNCHANGED <<results, variants, next>> /\ next > Len(variants)
        /\ table' = CHOOSE order \in [DOMAIN results -> DOMAIN results] :
                      \A i, j \in DOMAIN results : i < j => Before(order[i], order[j])
    BY <1>6 DEF Render
  <2>2. /\ table' \in [DOMAIN results -> DOMAIN results]
        /\ \A i, j \in DOMAIN results : i < j => Before(table'[i], table'[j])
    BY <2>1, SortExists
  <2>3. next' = Len(variants') + 1
    <3>1. next \in 1 .. (Len(variants) + 1) /\ Len(variants) \in Nat
      BY DEF TypeOK
    <3>2. QED BY <2>1, <3>1
  <2>4. ASSUME NEW i \in DOMAIN results, NEW j \in DOMAIN results, i < j
        PROVE  Before(table[i], table[j])'
    <3>1. Before(table'[i], table'[j])
      BY <2>2, <2>4
    <3>2. Before(table[i], table[j])' <=> Before(table'[i], table'[j])
      BY <2>1 DEF Before, AucpKey, NoReport
    <3>3. QED BY <3>1, <3>2
  <2>5. \A i, j \in DOMAIN results : i < j => Before(table[i], table[j])'
    BY <2>4
  <2>6. QED BY <2>1, <2>2, <2>3, <2>5 DEF RankedResults
<1>7. CASE UNCHANGED vars
  <2>1. UNCHANGED <<next, results, pc, variants, table>>
    BY <1>7 DEF vars
  <2>2. \A i, j : Before(table[i], table[j])' = Before(table[i], table[j])
    BY <2>1 DEF Before, AucpKey
  <2>3. QED BY <2>1, <2>2 DEF RankedResults
<1>8. QED BY <1>2, <1>3, <1>4, <1>5, <1>6, <1>7 DEF Next

(* benchmark.py:144, the table lists every variant once, the largest partial   *)
(* area first and those without metrics last, for every number of variants.    *)
THEOREM WholeRanking == Spec => []RankingIsWhole
<1>1. Init => TypeOK /\ RankedResults
  BY TypeInit DEF Init, RankedResults
<1>2. TypeOK /\ RankedResults /\ [Next]_vars => (TypeOK /\ RankedResults)'
  BY TypeStep, RankedStep
<1>3. TypeOK /\ RankedResults => RankingIsWhole
  <2> SUFFICES ASSUME TypeOK, RankedResults, pc = "rendered"
               PROVE  /\ IsInjective(table)
                      /\ {results[table[i]].variant : i \in DOMAIN table} = DOMAIN variants
                      /\ \A i, j \in DOMAIN table : i < j =>
                           LET a == results[table[i]].report
                               b == results[table[j]].report
                           IN  b # NoReport => a # NoReport /\ ~Larger(b, a)
    BY DEF RankingIsWhole
  <2> DEFINE S == DOMAIN results
             key(i) == AucpKey(results[i])
  <2>1. /\ S = 1 .. Len(results) /\ Len(results) \in Nat /\ next = Len(results) + 1
        /\ table \in [S -> S] /\ DOMAIN table = S
        /\ \A i, j \in S : i < j => Before(table[i], table[j])
        /\ \A i \in S : results[i].variant = i
        /\ next = Len(variants) + 1 /\ Len(variants) \in Nat /\ DOMAIN variants = 1 .. Len(variants)
    <3>1. S = 1 .. Len(results) /\ Len(results) \in Nat
      BY AppendAny DEF TypeOK
    <3>2. Len(variants) \in Nat /\ DOMAIN variants = 1 .. Len(variants)
      BY LenProperties DEF TypeOK
    <3>3. QED BY <3>1, <3>2 DEF RankedResults
  <2>2. \A i \in S : /\ key(i) \in Fraction
                     /\ results[i].report # NoReport =>
                          key(i) = results[i].report /\ key(i)[1] >= 0
                     /\ results[i].report = NoReport => key(i) = <<-1, 1>>
    BY KeyIs DEF RankedResults
  <2>3. \A i, j \in S : Before(i, j) <=> Larger(key(i), key(j)) \/ (~Larger(key(j), key(i)) /\ i < j)
    BY DEF Before
  <2> HIDE DEF S, key
  <2>4. ASSUME NEW i \in S, NEW j \in S, i < j
        PROVE  table[i] # table[j] /\ ~Larger(key(table[j]), key(table[i]))
    <3> DEFINE x == table[i]
               y == table[j]
    <3>1. x \in S /\ y \in S /\ Before(x, y)
      BY <2>1, <2>4
    <3> HIDE DEF x, y
    <3>2. key(x) \in Fraction /\ key(y) \in Fraction /\ x \in Nat /\ y \in Nat
      BY <2>1, <2>2, <3>1
    <3>3. Larger(key(x), key(y)) \/ (~Larger(key(y), key(x)) /\ x < y)
      BY <2>3, <3>1
    <3>4. ~Larger(key(y), key(x))
      BY <3>2, <3>3, LargerIsOrder
    <3>5. x # y
      BY <3>2, <3>3, LargerIsOrder
    <3>6. QED BY <3>4, <3>5 DEF x, y
  <2>5. IsInjective(table)
    <3> SUFFICES ASSUME NEW i \in S, NEW j \in S, table[i] = table[j] PROVE i = j
      BY <2>1 DEF IsInjective
    <3>1. ~(i < j) /\ ~(j < i)
      BY <2>4
    <3>2. QED BY <2>1, <3>1
  <2>6. {results[table[i]].variant : i \in DOMAIN table} = DOMAIN variants
    <3>1. table \in Injection(S, S)
      BY <2>1, <2>5 DEF Injection
    <3>2. IsFiniteSet(S)
      <4>1. 1 \in Int /\ Len(results) \in Int
        BY <2>1
      <4>2. IsFiniteSet(1 .. Len(results))
        BY <4>1, FS_Interval
      <4>3. QED BY <2>1, <4>2
    <3>3. table \in Surjection(S, S)
      BY <3>1, <3>2, FS_Injection
    <3>4. \A s \in S : \E i \in S : table[i] = s
      BY <3>3 DEF Surjection
    <3>5. \A i \in S : table[i] \in S /\ results[table[i]].variant = table[i]
      BY <2>1
    <3>6. {results[table[i]].variant : i \in S} = S
      BY <3>4, <3>5
    <3>7. DOMAIN variants = S
      <4>1. Len(variants) = Len(results)
        BY <2>1
      <4>2. QED BY <2>1, <4>1
    <3>8. QED BY <2>1, <3>6, <3>7
  <2>7. ASSUME NEW i \in S, NEW j \in S, i < j, results[table[j]].report # NoReport
        PROVE  /\ results[table[i]].report # NoReport
               /\ ~Larger(results[table[j]].report, results[table[i]].report)
    <3> DEFINE x == table[i]
               y == table[j]
    <3>1. x \in S /\ y \in S /\ ~Larger(key(y), key(x)) /\ results[y].report # NoReport
      BY <2>1, <2>4, <2>7
    <3> HIDE DEF x, y
    <3>2. key(y) \in Fraction /\ key(y) = results[y].report /\ key(y)[1] >= 0
      BY <2>2, <3>1
    <3>3. results[x].report # NoReport
      <4>1. SUFFICES ASSUME results[x].report = NoReport PROVE FALSE
        OBVIOUS
      <4>2. key(x) = <<-1, 1>>
        BY <2>2, <3>1, <4>1
      <4>3. key(y)[1] \in Nat /\ key(y)[2] \in Nat \ {0}
        BY <3>2 DEF Fraction
      <4>4. Larger(key(y), key(x))
        BY <4>2, <4>3 DEF Larger
      <4>5. QED BY <3>1, <4>4
    <3>4. key(x) = results[x].report
      BY <2>2, <3>1, <3>3
    <3>5. ~Larger(results[y].report, results[x].report)
      BY <3>1, <3>2, <3>4
    <3>6. QED BY <3>3, <3>5 DEF x, y
  <2>8. QED BY <2>1, <2>5, <2>6, <2>7
<1>4. QED BY <1>1, <1>2, <1>3, PTL DEF Spec

==============================================================================
