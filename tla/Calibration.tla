----------------------------- MODULE Calibration -----------------------------
(* The threshold of a one-class model: a quantile of the scores its validation *)
(* sequences have, and what counts as an anomaly.  Scores are integers, sorted *)
(* as the quantile sorts them; targets and thresholds are fractions, a pair of *)
(* numerator and denominator.                                                  *)
EXTENDS Integers, Sequences

Sorted(s) == \A i, j \in DOMAIN s : i <= j => s[i] <= s[j]

Fraction == (Nat \ {0}) \X (Nat \ {0})

AtMost(p, q) == p[1] * q[2] <= q[1] * p[2]

(* The quantile's position among n sorted scores is (n - 1) * target, counted  *)
(* from zero: a whole part and a remainder over the target's denominator.      *)
Position(n, q)  == ((n - 1) * q[1]) \div q[2]
Remainder(n, q) == ((n - 1) * q[1]) % q[2]

(* Mutant: the quantile of the accepted instead of the rejected share.         *)
MutQuantile(s, q) ==
  LET p  == <<q[2] - q[1], q[2]>>
      lo == Position(Len(s), p) + 1
      hi == IF lo < Len(s) THEN lo + 1 ELSE lo
  IN  <<s[lo] * q[2] + Remainder(Len(s), p) * (s[hi] - s[lo]), q[2]>>

(* Linear interpolation between the two scores around that position.           *)
Quantile(s, q) ==
  LET lo == Position(Len(s), q) + 1
      hi == IF lo < Len(s) THEN lo + 1 ELSE lo
  IN  <<s[lo] * q[2] + Remainder(Len(s), q) * (s[hi] - s[lo]), q[2]>>

(* Mutant: the threshold itself is an anomaly as well.                         *)
MutIsAnomaly(score, thr) == score * thr[2] <= thr[1]

IsAnomaly(score, thr) == score * thr[2] < thr[1]

(* The positions of the scores that a threshold rejects.                       *)
Rejected(s, thr) == {i \in DOMAIN s : IsAnomaly(s[i], thr)}
==============================================================================
