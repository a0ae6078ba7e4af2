----------------------------- MODULE RocMetrics ------------------------------
(* The ranking metrics of an evaluation: the operating point tpr_at_fpr picks   *)
(* and the area partial_auc computes, on the ROC curve scikit-learn hands them. *)
(* Scores are the ranks 1 .. Top of the normality scores, so the samples are    *)
(* counts per rank; a flow is flagged if its rank is at most the threshold's.   *)
(* Rates are fractions of the sample sizes and are compared without dividing;   *)
(* so are targets.                                                              *)
EXTENDS Naturals, SequencesExt

CONSTANT Top

ASSUME MetricsAssumption == Top \in Nat \ {0}

VARIABLES normal, attack  \* how many covered flows of each class have each rank

Scores == 1 .. Top

NoScores == [s \in Scores |-> 0]

Upto(sample, s) == MapThenSumSet(LAMBDA r : sample[r], 1 .. s)
Size(sample)    == Upto(sample, Top)

(* The members of a set of numbers, from the least on.                          *)
Ascending(S) ==
  [i \in 1 .. Cardinality(S) |-> CHOOSE s \in S : Cardinality({t \in S : t <= s}) = i]

------------------------------------------------------------------------------
(* roc_curve: one point per rank that occurs, from the most anomalous on.       *)
Point(s) == [fps |-> Upto(normal, s), tps |-> Upto(attack, s), score |-> s]

AllPoints ==
  LET ranks == Ascending({s \in Scores : normal[s] + attack[s] > 0})
  IN  [i \in DOMAIN ranks |-> Point(ranks[i])]

(* Interior points at which neither count changes its step lie on a line with   *)
(* their neighbours and are left out.                                           *)
OnLine(points, i) ==
  /\ i > 1 /\ i < Len(points)
  /\ points[i + 1].fps + points[i - 1].fps = 2 * points[i].fps
  /\ points[i + 1].tps + points[i - 1].tps = 2 * points[i].tps

Kept(points) ==
  LET keep == Ascending({i \in DOMAIN points : ~OnLine(points, i)})
  IN  [i \in DOMAIN keep |-> points[keep[i]]]

(* The curve starts where nothing is flagged.                                   *)
Curve(points) == <<[fps |-> 0, tps |-> 0, score |-> 0]>> \o points

RocCurve == Curve(Kept(AllPoints))

------------------------------------------------------------------------------
(* fpr <= q for a point.                                                        *)
Within(p, q) == p.fps * q[2] <= Size(normal) * q[1]

(* Mutant: the eligible points are counted from the other end of the curve.     *)
MutEligibleLast(curve, q) ==
  curve[Len(curve) + 1 - Cardinality({i \in DOMAIN curve : Within(curve[i], q)})]

EligibleLast(curve, q) ==
  curve[CHOOSE i \in DOMAIN curve :
          Within(curve[i], q) /\ \A j \in DOMAIN curve : Within(curve[j], q) => j <= i]

TprAtFpr(q) == EligibleLast(RocCurve, q)

------------------------------------------------------------------------------
(* Twice the area under a curve over the first k points, fps times tps.         *)
Trapezoids(curve, k) ==
  LET area == [i \in 1 .. (k - 1) |->
                 (curve[i + 1].fps - curve[i].fps) * (curve[i + 1].tps + curve[i].tps)]
  IN  MapThenSumSet(LAMBDA i : area[i], 1 .. (k - 1))

(* searchsorted, side right: the last point whose fpr is at most q.             *)
Stop(curve, q) == Cardinality({i \in DOMAIN curve : Within(curve[i], q)})

(* The interpolated tps at x / d between two points, times their distance * d.  *)
Height(a, b, x, d) == a.tps * (b.fps - a.fps) * d + (x - a.fps * d) * (b.tps - a.tps)

(* Mutant: the area up to q is not divided by q.                                *)
MutRectangle(q) == 2 * q[2] * q[2] * Size(normal) * Size(attack)

(* What a classifier that finds everything would have up to q, scaled.          *)
Rectangle(q) == 2 * q[1] * q[2] * Size(normal) * Size(attack)

(* partial_auc, as a fraction: the trapezoids up to q, the last one cut at q,   *)
(* over q times the whole rectangle.  Everything is multiplied by twice the     *)
(* square of q's denominator and by the distance of the two points at the cut.  *)
PartialAuc(curve, q) ==
  LET k == Stop(curve, q)
      a == curve[k]
      b == curve[k + 1]
      x == Size(normal) * q[1]
      w == b.fps - a.fps
      last == (x - a.fps * q[2]) * (a.tps * w * q[2] + Height(a, b, x, q[2]))
  IN  <<Trapezoids(curve, k) * w * q[2] * q[2] + last,
        Rectangle(q) * w>>
==============================================================================
