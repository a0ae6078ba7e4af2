--------------------------- MODULE MCMemoryChannel ---------------------------
(* Small instances of MemoryChannel.                                           *)
EXTENDS MemoryChannel, TLC

CONSTANTS k1, k2

MCKeys == {k1, k2}
Loose  == [k \in MCKeys |-> IF k = k1 THEN 1 ELSE NoModel]
Strict == [k \in MCKeys |-> IF k = k1 THEN 2 ELSE NoModel]
MCModels == {Loose, Strict}

RulesetThenHmm == <<"ruleset", "hmm">>

(* One that only the stricter model blocks, one that two rules match, and one  *)
(* that has no bytes.                                                          *)
Suspicious == [rules |-> {}, key |-> k1, score |-> 1, encodable |-> TRUE]
Attack     == [rules |-> {2, 3}, key |-> k2, score |-> 0, encodable |-> TRUE]
Surrogate  == [rules |-> {}, key |-> k1, score |-> 2, encodable |-> FALSE]
MCRequests == {Suspicious, Attack, Surrogate}
==============================================================================
