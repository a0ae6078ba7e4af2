----------------------------- MODULE MCBenchmark -----------------------------
(* Up to three variants that ask for one, two or three flows per partition;    *)
(* two partitions with few or more flows to fit, and attacks in both, one or   *)
(* none of them.  And one variant on enough flows of either class for a curve  *)
(* with every kind of step, with targets of one in twenty to four in five.     *)
EXTENDS Benchmark

CONSTANTS k1, k2

MCKeys    == {k1, k2}
MCTargets == {<<1, 20>>, <<1, 3>>, <<1, 2>>, <<2, 3>>, <<4, 5>>}

Good(k) == [attack |-> FALSE, key |-> k]
Bad(k)  == [attack |-> TRUE, key |-> k]

Small ==
  [normal     : {<<k1, k2, k2>>, <<k1, k1, k2, k2, k2>>, <<k2>>},
   validation : {<<k1>>, <<k2, k1>>},
   eval       : {<<Good(k1), Bad(k1), Good(k2)>>, <<Good(k1), Good(k2), Bad(k2)>>,
                 <<Good(k1)>>}]

Variant == [minTrain : 1 .. 3, target : {<<1, 2>>}]

Large(n) == [normal |-> <<k1>>, validation |-> <<k1>>,
             eval |-> [i \in 1 .. 2 * n |-> IF i <= n THEN Good(k1) ELSE Bad(k1)]]

OneVariant(n) ==
  [data : {Large(n)}, variants : {<<[minTrain |-> 1, target |-> q]>> : q \in MCTargets}]

MCComparisons ==
  [data : Small, variants : UNION {[1 .. n -> Variant] : n \in 1 .. 3}]
  \cup UNION {OneVariant(n) : n \in 1 .. 4}

FewFlows == OneVariant(3)
==============================================================================
