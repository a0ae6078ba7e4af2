--------------------------- MODULE MCKafkaInspector --------------------------
(* Small instances of KafkaInspector.                                          *)
EXTENDS KafkaInspector, TLC

CONSTANTS p1, p2, k1, k2

RulesetThenHmm == <<"ruleset", "hmm">>

(* k1 is a partition with enough traffic to be modelled, k2 never is.          *)
MCKeys     == {k1, k2}
Untrained  == [k \in MCKeys |-> NoModel]
Loose      == [k \in MCKeys |-> IF k = k1 THEN 1 ELSE NoModel]
Strict     == [k \in MCKeys |-> IF k = k1 THEN 2 ELSE NoModel]

(* An ordinary request, one only the stricter model blocks, a signature that   *)
(* two rules match in an uncovered partition, and text that has no bytes.      *)
Suspicious == [rules |-> {}, key |-> k1, score |-> 1, encodable |-> TRUE]
Attack     == [rules |-> {2, 3}, key |-> k2, score |-> 0, encodable |-> TRUE]
Surrogate  == [rules |-> {}, key |-> k1, score |-> 2, encodable |-> FALSE]

DecidableRequests == {Suspicious, Attack}
MixedRequests     == {Suspicious, Surrogate}
UntrainedOrStrict == {Untrained, Strict}
OneModel          == {Loose}
==============================================================================
