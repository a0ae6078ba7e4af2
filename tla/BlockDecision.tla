---------------------------- MODULE BlockDecision ----------------------------
(* The domain decision: an ordered tuple of detectors looks at a request, and  *)
(* a policy combines their signals into one verdict.                           *)
(*                                                                             *)
(* A request is a record                                                       *)
(*   rules   the rule numbers whose pattern is found in its payload,           *)
(*   key     the partition (direction, protocol, port, length bucket) of it,   *)
(*   score   its log-likelihood, as a rank: only the side of the threshold it  *)
(*           falls on is ever looked at,                                       *)
(*   encodable  whether its text can be turned into payload bytes: a lone      *)
(*           surrogate survives JSON but no UTF-8 encoding.                     *)
(* A model maps every partition to its threshold, or to NoModel.               *)
EXTENDS Naturals, Sequences

CONSTANTS Keys, NoModel

ASSUME NoModelAssumption == NoModel \notin Nat

Policies == {"ANY", "ALL"}

Request == [rules : SUBSET (Nat \ {0}), key : Keys, score : Nat, encodable : BOOLEAN]
Model   == [Keys -> Nat \cup {NoModel}]

(* The detectors a service is built from: at least one, in a fixed order.      *)
DetectorTuple == Seq({"ruleset", "hmm"}) \ {<<>>}

(* Rules are tried in file order and the first match ends the search.          *)
FirstRule(rules) == CHOOSE n \in rules : \A m \in rules : n <= m

RuleSetInspect(r) ==
  [detector |-> "ruleset",
   blocked  |-> r.rules # {},
   cause    |-> IF r.rules = {} THEN 0 ELSE FirstRule(r.rules)]

IsTrained(model) == \E k \in Keys : model[k] # NoModel

Covered(model, r) == model[r.key] # NoModel

(* Strictly below the threshold is an anomaly; the threshold itself is not.    *)
Anomalous(model, r) == Covered(model, r) /\ r.score < model[r.key]

(* Mutant: an uncovered partition blocks instead of abstaining.                *)
MutFailClosed(model, r) ==
  [detector |-> "hmm",
   blocked  |-> IsTrained(model) /\ (Covered(model, r) => r.score < model[r.key]),
   cause    |-> 0]

(* An untrained detector and an uncovered partition both abstain.              *)
HmmInspect(model, r) ==
  [detector |-> "hmm",
   blocked  |-> IsTrained(model) /\ Anomalous(model, r),
   cause    |-> 0]

Inspect(detector, model, r) ==
  IF detector = "ruleset" THEN RuleSetInspect(r) ELSE HmmInspect(model, r)

(* Every detector is asked, whatever the ones before it said.                  *)
Signals(detectors, model, r) ==
  [i \in DOMAIN detectors |-> Inspect(detectors[i], model, r)]

Blocking(signals) == {i \in DOMAIN signals : signals[i].blocked}

(* Mutant: a loop over the signals that keeps the last answer only.            *)
MutLastDecides(policy, signals) == signals[Len(signals)].blocked

ShouldBlock(policy, signals) ==
  \/ policy = "ANY" /\ Blocking(signals) # {}
  \/ policy # "ANY" /\ Blocking(signals) = DOMAIN signals

(* "allowed" is the empty set; otherwise the blocking detectors with causes.   *)
Reason(policy, signals) ==
  IF ShouldBlock(policy, signals)
  THEN {<<signals[i].detector, signals[i].cause>> : i \in Blocking(signals)}
  ELSE {}

(* The verdict as the verdict topic carries it.                                *)
Decide(policy, detectors, model, r) ==
  LET signals == Signals(detectors, model, r)
  IN  [blocked |-> ShouldBlock(policy, signals), reason |-> Reason(policy, signals)]

(* What makes the decision raise instead of returning: only a trained HMM      *)
(* turns the text into bytes, whatever the ruleset already found.              *)
Raises(detectors, model, r) ==
  /\ ~r.encodable
  /\ IsTrained(model)
  /\ \E i \in DOMAIN detectors : detectors[i] = "hmm"
==============================================================================
