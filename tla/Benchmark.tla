------------------------------ MODULE Benchmark ------------------------------
(* compare: the rows of the CSV files are read once into three lists, every    *)
(* variant of a model is trained and scored on them, one after the other, and  *)
(* the results are rendered as one table, best partial area first.  A flow is  *)
(* the partition it falls in, and for evaluation whether it is an attack.      *)
(* Partitions do not depend on the variant; the scores do, and are left open.  *)
EXTENDS RocMetrics, Integers, TLC

CONSTANTS Keys, Comparisons

Target == {q \in (Nat \ {0}) \X (Nat \ {0}) : q[1] < q[2]}

ASSUME BenchmarkAssumption ==
  \A c \in Comparisons :
    /\ c.data \in [normal : Seq(Keys), validation : Seq(Keys),
                   eval : Seq([attack : BOOLEAN, key : Keys])]
    /\ c.variants \in Seq([minTrain : Nat, target : Target])

VARIABLES
  data, variants,  \* what compare_models was called with
  pc,              \* "train" or "score" the variant at hand, "raised", "rendered"
  next,            \* its number
  covered,         \* the partitions its detector has a model for
  counts,          \* the two counts its detector recorded
  flow,            \* the labelled flow it scores next
  results,         \* a result per variant that is done
  table            \* the rendered rows, as numbers of results

(* None.                                                                       *)
NoReport == <<>>

scores == <<normal, attack, flow>>
vars   == <<data, variants, pc, next, covered, counts, scores, results, table>>

Init == /\ \E c \in Comparisons : data = c.data /\ variants = c.variants
        /\ pc = "train" /\ next = 1 /\ flow = 1
        /\ normal = NoScores /\ attack = NoScores
        /\ covered = {} /\ counts = <<0, 0>> /\ results = <<>> /\ table = <<>>

(* Mutant: the flows are an iterator, and the first variant uses it up.        *)
MutNormal == IF next = 1 THEN data.normal ELSE <<>>

(* list(normal_flows): every variant goes over the same list.                  *)
Normal == data.normal

In(flows, k) == {i \in DOMAIN flows : flows[i] = k}

Fittable(k) == /\ In(Normal, k) # {}
               /\ Cardinality(In(Normal, k)) >= variants[next].minTrain
               /\ In(data.validation, k) # {}

(* A new detector is built and trained.                                        *)
Train ==
  /\ pc = "train" /\ next <= Len(variants)
  /\ covered' = {k \in Keys : Fittable(k)}
  /\ counts' = <<Len(Normal), Len(data.validation)>>
  /\ normal' = NoScores /\ attack' = NoScores /\ flow' = 1
  /\ pc' = "score"
  /\ UNCHANGED <<data, variants, next, results, table>>

(* Building, training or scoring raises: nothing catches it, and the results   *)
(* of the variants before go with the list that held them.                     *)
Raise ==
  /\ pc \in {"train", "score"} /\ next <= Len(variants)
  /\ pc' = "raised"
  /\ UNCHANGED <<data, variants, next, covered, counts, scores, results, table>>

(* score_labeled_flows: a flow of a partition without a model has no score.    *)
Abstain == data.eval[flow].key \notin covered

ScoreFlow ==
  /\ pc = "score" /\ flow <= Len(data.eval)
  /\ flow' = flow + 1
  /\ IF Abstain THEN UNCHANGED <<normal, attack>>
     ELSE \E s \in Scores :
            IF data.eval[flow].attack
            THEN attack' = [attack EXCEPT ![s] = @ + 1] /\ UNCHANGED normal
            ELSE normal' = [normal EXCEPT ![s] = @ + 1] /\ UNCHANGED attack
  /\ UNCHANGED <<data, variants, pc, next, covered, counts, results, table>>

AllScored == pc = "score" /\ flow > Len(data.eval)

BothClasses == Size(normal) > 0 /\ Size(attack) > 0

TargetFpr == variants[next].target

(* There is a report if both classes have a score.                             *)
Report ==
  /\ AllScored
  /\ results' = Append(results,
       [variant |-> next,
        report  |-> IF BothClasses THEN PartialAuc(RocCurve, TargetFpr) ELSE NoReport,
        trainCount |-> counts[1], validationCount |-> counts[2],
        evalNormal |-> Size(normal), evalAttack |-> Size(attack)])
  /\ pc' = "train" /\ next' = next + 1
  /\ UNCHANGED <<data, variants, covered, counts, scores, table>>

(* Mutant: no report sorts like an area of zero.                               *)
MutAucpKey(r) == IF r.report = NoReport THEN <<0, 1>> ELSE r.report

AucpKey(r) == IF r.report = NoReport THEN <<-1, 1>> ELSE r.report

Larger(a, b) == a[1] * b[2] > b[1] * a[2]

(* sorted(..., reverse=True) keeps equals in the order they came in.           *)
Before(i, j) ==
  LET a == AucpKey(results[i])
      b == AucpKey(results[j])
  IN  Larger(a, b) \/ (~Larger(b, a) /\ i < j)

Render ==
  /\ pc = "train" /\ next > Len(variants)
  /\ table' = CHOOSE order \in [DOMAIN results -> DOMAIN results] :
                 \A i, j \in DOMAIN results : i < j => Before(order[i], order[j])
  /\ pc' = "rendered"
  /\ UNCHANGED <<data, variants, next, covered, counts, scores, results>>

Next == Train \/ Raise \/ ScoreFlow \/ Report \/ Render

Spec == Init /\ [][Next]_vars

------------------------------------------------------------------------------
(* What the proofs rest on.                                                    *)
(* The types.  The variants are numbered in the order they are compared in.    *)
TypeOK ==
  /\ data.normal \in Seq(Keys) /\ data.validation \in Seq(Keys)
  /\ data.eval \in Seq([attack : BOOLEAN, key : Keys])
  /\ variants \in Seq([minTrain : Nat, target : Target])
  /\ pc \in {"train", "score", "raised", "rendered"}
  /\ next \in 1 .. (Len(variants) + 1) /\ (pc = "score" => next <= Len(variants))
  /\ covered \subseteq Keys /\ counts \in Nat \X Nat
  /\ flow \in 1 .. (Len(data.eval) + 1)
  /\ normal \in [Scores -> Nat] /\ attack \in [Scores -> Nat]
  /\ results \in Seq(ToSet(results))

(* The partitions a variant that asks for n flows has a model for, and the     *)
(* flows of one class it scores among the first m.                             *)
CoveredBy(n) ==
  {k \in Keys : /\ In(data.normal, k) # {} /\ Cardinality(In(data.normal, k)) >= n
                /\ In(data.validation, k) # {}}

ScoredOf(class, n, m) ==
  {i \in 1 .. m : data.eval[i].attack = class /\ data.eval[i].key \in CoveredBy(n)}

(* What is counted while a variant is scored, and in its result.               *)
CountedSoFar ==
  pc = "score" =>
    LET n == variants[next].minTrain
    IN  /\ covered = CoveredBy(n)
        /\ counts = <<Len(data.normal), Len(data.validation)>>
        /\ Size(normal) = Cardinality(ScoredOf(FALSE, n, flow - 1))
        /\ Size(attack) = Cardinality(ScoredOf(TRUE, n, flow - 1))

CountedInResults ==
  \A i \in DOMAIN results :
    LET r == results[i]
        n == variants[r.variant].minTrain
    IN  /\ r.variant \in DOMAIN variants
        /\ r.trainCount = Len(data.normal) /\ r.validationCount = Len(data.validation)
        /\ r.evalNormal = Cardinality(ScoredOf(FALSE, n, Len(data.eval)))
        /\ r.evalAttack = Cardinality(ScoredOf(TRUE, n, Len(data.eval)))
        /\ r.report # NoReport <=> (r.evalNormal > 0 /\ r.evalAttack > 0)

(* A result per variant that is done, in their order, the areas not negative;  *)
(* and what the table is sorted by.                                            *)
RankedResults ==
  /\ next = Len(results) + 1
  /\ \A i \in DOMAIN results :
       /\ results[i].variant = i
       /\ results[i].report # NoReport => results[i].report \in Nat \X (Nat \ {0})
  /\ pc = "rendered" =>
       /\ next = Len(variants) + 1
       /\ table \in [DOMAIN results -> DOMAIN results]
       /\ \A i, j \in DOMAIN results : i < j => Before(table[i], table[j])

------------------------------------------------------------------------------
(* benchmark.py:4: the comparison is fair.  Of two variants, whichever came    *)
(* first, the one that asks for no more flows per partition scores no fewer    *)
(* flows of either class, and has metrics if the other one has; variants that  *)
(* ask for the same, as those of the preset do, score the very same flows.     *)
SameFlowsScored ==
  \A i, j \in DOMAIN results :
    LET a == results[i]
        b == results[j]
    IN  variants[a.variant].minTrain <= variants[b.variant].minTrain =>
          /\ a.evalNormal >= b.evalNormal /\ a.evalAttack >= b.evalAttack
          /\ b.report # NoReport => a.report # NoReport
          /\ a.trainCount = b.trainCount /\ a.validationCount = b.validationCount

(* benchmark.py:144: what is rendered compares every variant that was asked    *)
(* for, once, best area first; one without metrics comes after all that have   *)
(* some, down to one whose partial area is zero.                               *)
RankingIsWhole ==
  pc = "rendered" =>
    /\ IsInjective(table)
    /\ {results[table[i]].variant : i \in DOMAIN table} = DOMAIN variants
    /\ \A i, j \in DOMAIN table : i < j =>
         LET a == results[table[i]].report
             b == results[table[j]].report
         IN  b # NoReport => a # NoReport /\ ~Larger(b, a)

(* The reported threshold realises the reported rates: flagging the flows of   *)
(* the ranks up to it stays within the target and finds that many attacks.     *)
ThresholdIsRealised ==
  (AllScored /\ BothClasses) =>
    LET p == TprAtFpr(TargetFpr)
    IN  /\ p.score \in 0 .. Top
        /\ Upto(attack, p.score) = p.tps
        /\ Upto(normal, p.score) * TargetFpr[2] <= Size(normal) * TargetFpr[1]

(* evaluation.py:102, 109: the area is normalised to [0, 1], and a classifier  *)
(* that separates the classes scores 1, however small the target.  The points  *)
(* roc_curve leaves out make no difference, also not when the cut falls        *)
(* between two points that had one of them in the middle.                      *)
AucIsNormalisedArea ==
  (AllScored /\ BothClasses) =>
    LET auc == PartialAuc(RocCurve, TargetFpr)
        all == PartialAuc(Curve(AllPoints), TargetFpr)
    IN  /\ auc[1] <= auc[2]
        /\ (\A s, t \in Scores : attack[s] > 0 /\ normal[t] > 0 => s < t) => auc[1] = auc[2]
        /\ auc[1] * all[2] = all[1] * auc[2]

(* evaluation.py:91: the detection rate is the one at the largest rate of      *)
(* false positives within the target, of all the points a threshold can reach. *)
TprOfLargestFpr ==
  (AllScored /\ BothClasses) =>
    \A s \in Scores :
      Within(Point(s), TargetFpr) => Point(s).tps <= TprAtFpr(TargetFpr).tps
==============================================================================
