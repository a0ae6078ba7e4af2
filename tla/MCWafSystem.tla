----------------------------- MODULE MCWafSystem -----------------------------
(* Small instances of WafSystem: one trainer, two inspectors.                  *)
EXTENDS WafSystem, TLC

CONSTANTS t1, p1, p2, k1, k2

Benign(k) == [benign |-> TRUE, key |-> k]

(* Each partition has a flow to fit on and one to calibrate on.                *)
MCFile == <<Benign(k1), Benign(k1), Benign(k2), Benign(k2)>>
Half   == {<<1, 2>>}
Whole  == {4}

RulesetThenHmm == <<"ruleset", "hmm">>

(* Another training may set another threshold.                                 *)
MCThreshold(d, k) == IF d.trainCount > 1 THEN 2 ELSE 1

Suspicious == [rules |-> {}, key |-> k1, score |-> 1, encodable |-> TRUE]
Surrogate  == [rules |-> {}, key |-> k1, score |-> 2, encodable |-> FALSE]
MixedRequests     == {Suspicious, Surrogate}
==============================================================================
