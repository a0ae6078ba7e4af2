-------------------------- MODULE MCDecisionService --------------------------
(* Every tuple of up to three detectors, two partitions, thresholds 1 and 2,    *)
(* scores on both sides of and at them, no rule, one rule and two rules.        *)
EXTENDS DecisionService

CONSTANTS k1, k2

MCKeys        == {k1, k2}
MCDeployments == UNION {[1 .. n -> {"ruleset", "hmm"}] : n \in 1 .. 3}
MCModels      == [MCKeys -> {1, 2, NoModel}]
MCRequests    == [rules : {{}, {2}, {2, 3}}, key : MCKeys, score : 0 .. 2,
                  encodable : {TRUE}]
==============================================================================
