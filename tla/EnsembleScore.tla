---------------------------- MODULE EnsembleScore ----------------------------
(* EnsembleNormalHMM: several HMMs fitted on the same flows with different     *)
(* random starts, whose scores of a flow are fused into one; the ensemble has  *)
(* one threshold, calibrated on fused scores, and its members have none.  The  *)
(* scores of a flow are a function from members to integers; a fused score is  *)
(* kept in units of 1 / K for K members, so that a mean is an integer too.     *)
EXTENDS Calibration, SequencesExt

CONSTANTS Members, Combinations, Targets, Validations, Questions, NotCalibrated

EnsembleAssumption ==
  /\ IsFiniteSet(Members) /\ Members # {}
  /\ Combinations \subseteq {"mean", "min", "max"}
  /\ Targets \subseteq {q \in Fraction : q[1] < q[2]}
  /\ Validations \subseteq Seq([Members -> Int]) \ {<<>>}
  /\ Questions \subseteq [Members -> Int]

VARIABLES
  combination, target,
  validation,  \* the scores of the flows calibrate() was last called with
  threshold,
  asked        \* the flow is_anomaly() was last called with, and its answer

vars == <<combination, target, validation, threshold, asked>>

Init == /\ combination \in Combinations /\ target \in Targets
        /\ validation = <<>> /\ threshold = NotCalibrated
        /\ asked = <<>>

Size == Cardinality(Members)

Values(flow) == {flow[m] : m \in Members}

Lowest(flow)  == CHOOSE x \in Values(flow) : \A y \in Values(flow) : x <= y
Highest(flow) == CHOOSE x \in Values(flow) : \A y \in Values(flow) : x >= y

Total(flow) == MapThenSumSet(LAMBDA m : flow[m], Members)

(* Mutant: the two extremes are confused.                                      *)
MutFused(flow) ==
  CASE combination = "mean" -> Total(flow)
    [] combination = "max"  -> Size * Lowest(flow)
    [] combination = "min"  -> Size * Highest(flow)

Fused(flow) ==
  CASE combination = "mean" -> Total(flow)
    [] combination = "min"  -> Size * Lowest(flow)
    [] combination = "max"  -> Size * Highest(flow)

(* At k, the score that fewer than k scores are below and at least k are up to. *)
InOrder(scores) ==
  [k \in DOMAIN scores |->
     CHOOSE x \in ToSet(scores) :
       /\ Cardinality({i \in DOMAIN scores : scores[i] < x}) < k
       /\ k <= Cardinality({i \in DOMAIN scores : scores[i] <= x})]

(* The quantile of the fused scores, not a fusion of the members' quantiles.   *)
ThresholdOf(flows) == Quantile(InOrder([i \in DOMAIN flows |-> Fused(flows[i])]), target)

(* Every training builds a new ensemble and calibrates it once.                *)
Calibrate(flows) ==
  /\ threshold = NotCalibrated
  /\ validation' = flows /\ threshold' = ThresholdOf(flows)
  /\ asked' = <<>>
  /\ UNCHANGED <<combination, target>>

Ask(flow) ==
  /\ threshold # NotCalibrated
  /\ asked' = <<[flow |-> flow, anomaly |-> IsAnomaly(Fused(flow), threshold)]>>
  /\ UNCHANGED <<combination, target, validation, threshold>>

Next == \/ \E flows \in Validations : Calibrate(flows)
        \/ \E flow \in Questions : Ask(flow)

Spec == Init /\ [][Next]_vars

------------------------------------------------------------------------------
(* What a member would say, had it been calibrated by itself on the same flows *)
(* with the same target.                                                       *)
OwnThreshold(m) == Quantile(InOrder([i \in DOMAIN validation |-> validation[i][m]]), target)

Alone(m, flow) == IsAnomaly(flow[m], OwnThreshold(m))

(* Flows on which the members agree.                                           *)
Agree(flow) == \A m, n \in Members : flow[m] = flow[n]

(* ensemble_hmm.py:10: since the threshold is calibrated on what it fuses, an  *)
(* ensemble by minimum blocks only what one of its members alone would block,  *)
(* and one by maximum blocks whatever all of them alone would block, although  *)
(* the flows that set the threshold are others for every member.  Members that *)
(* agree on every flow decide as one of them alone would, whatever the         *)
(* combination.                                                                *)
FollowsMembers ==
  \A i \in DOMAIN asked :
    LET blocking == {m \in Members : Alone(m, asked[i].flow)}
    IN  /\ combination = "min" /\ asked[i].anomaly => blocking # {}
        /\ combination = "max" /\ blocking = Members => asked[i].anomaly
        /\ (Agree(asked[i].flow) /\ \A j \in DOMAIN validation : Agree(validation[j]))
             => \A m \in Members : asked[i].anomaly <=> m \in blocking
==============================================================================
