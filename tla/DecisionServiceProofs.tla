------------------------ MODULE DecisionServiceProofs ------------------------
(* The properties of DecisionService, for every set of requests, models and    *)
(* deployments: a verdict depends on a tuple of detectors only through the set *)
(* of them, and on a model only through the request's own partition.           *)
EXTENDS DecisionService, WellFoundedInduction, TLAPS

(* Every non-empty set of naturals has a least element.                        *)
LEMMA LeastExists ==
  ASSUME NEW S \in SUBSET Nat, S # {}
  PROVE  \E n \in S : \A m \in S : n <= m
<1> DEFINE R == OpToRel(<, Nat)
<1>1. \A x, y \in Nat : x < y => <<x, y>> \in R
  BY DEF OpToRel
<1>2. IsWellFoundedOn(R, Nat)
  BY NatLessThanWellFounded
<1> HIDE DEF R
<1>3. PICK n \in S : \A m \in S : ~ (<<m, n>> \in R)
  BY <1>2, WFMin
<1>4. ASSUME NEW m \in S PROVE n <= m
  <2>1. ~ (m < n)
    BY <1>1, <1>3
  <2>2. m \in Nat /\ n \in Nat
    OBVIOUS
  <2>3. QED BY <2>1, <2>2
<1>5. QED BY <1>4

(* The rule a match is reported under is one of the matching rules.            *)
LEMMA FirstRuleMatches ==
  ASSUME NEW S \in SUBSET (Nat \ {0}), S # {}
  PROVE  FirstRule(S) \in S
<1>1. \E n \in S : \A m \in S : n <= m
  BY LeastExists
<1>2. QED BY <1>1 DEF FirstRule

(* Deciding yields a verdict message, whatever the model answers.              *)
LEMMA DecideType ==
  ASSUME NEW pol, NEW ds, NEW m, NEW r \in Request
  PROVE  Decide(pol, ds, m, r) \in
           [blocked : BOOLEAN, reason : SUBSET ({"ruleset", "hmm"} \X Nat)]
<1> DEFINE signals == Signals(ds, m, r)
<1>1. RuleSetInspect(r).detector = "ruleset" /\ RuleSetInspect(r).cause \in Nat
  <2>1. r.rules \in SUBSET (Nat \ {0})
    BY DEF Request
  <2>2. QED BY <2>1, FirstRuleMatches DEF RuleSetInspect
<1>2. HmmInspect(m, r).detector = "hmm" /\ HmmInspect(m, r).cause \in Nat
  BY DEF HmmInspect
<1>3. \A i \in DOMAIN signals : /\ signals[i].detector \in {"ruleset", "hmm"}
                                /\ signals[i].cause \in Nat
  BY <1>1, <1>2 DEF Signals, Inspect
<1> HIDE DEF signals
<1>4. Reason(pol, signals) \in SUBSET ({"ruleset", "hmm"} \X Nat)
  BY <1>3 DEF Reason, Blocking
<1>5. ShouldBlock(pol, signals) \in BOOLEAN
  BY DEF ShouldBlock
<1>6. QED BY <1>4, <1>5 DEF Decide, signals

------------------------------------------------------------------------------

(* A tuple has at least one detector, and only known ones.                     *)
LEMMA TupleFacts ==
  ASSUME NEW d \in DetectorTuple
  PROVE  /\ 1 \in DOMAIN d
         /\ \A i \in DOMAIN d : d[i] \in {"ruleset", "hmm"}
<1>1. d \in Seq({"ruleset", "hmm"}) /\ d # <<>>
  BY DEF DetectorTuple
<1>2. Len(d) \in Nat \ {0} /\ DOMAIN d = 1 .. Len(d)
  BY <1>1
<1>3. QED BY <1>1, <1>2

(* That some partition is trained follows from the request's own being covered:*)
(* the guard of inspect() adds nothing to the one of assess().                 *)
LEMMA HmmBlocks ==
  ASSUME NEW m, NEW r \in Request
  PROVE  HmmInspect(m, r) = [detector |-> "hmm", blocked |-> Anomalous(m, r), cause |-> 0]
<1>1. r.key \in Keys
  BY DEF Request
<1>2. Anomalous(m, r) => IsTrained(m)
  BY <1>1 DEF Anomalous, Covered, IsTrained
<1>3. Anomalous(m, r) \in BOOLEAN /\ IsTrained(m) \in BOOLEAN
  BY DEF Anomalous, Covered, IsTrained
<1>4. (IsTrained(m) /\ Anomalous(m, r)) = Anomalous(m, r)
  BY <1>2, <1>3
<1>5. QED BY <1>4 DEF HmmInspect

(* A signal carries the name of the detector it comes from.                    *)
LEMMA SignalName ==
  ASSUME NEW x \in {"ruleset", "hmm"}, NEW m, NEW r
  PROVE  Inspect(x, m, r).detector = x
BY DEF Inspect, RuleSetInspect, HmmInspect

(* The blocking ones among the signals of a tuple of detectors.                *)
LEMMA BlockingOf ==
  ASSUME NEW d, NEW m, NEW r
  PROVE  /\ DOMAIN Signals(d, m, r) = DOMAIN d
         /\ Blocking(Signals(d, m, r)) = {i \in DOMAIN d : Inspect(d[i], m, r).blocked}
BY DEF Signals, Blocking

(* What the policies mean, whatever the order of the detectors.                *)
LEMMA BlockedMeans ==
  ASSUME NEW p \in Policies, NEW d \in DetectorTuple, NEW m, NEW r
  PROVE  Decide(p, d, m, r).blocked <=>
           IF p = "ANY" THEN \E i \in DOMAIN d : Inspect(d[i], m, r).blocked
                        ELSE \A i \in DOMAIN d : Inspect(d[i], m, r).blocked
<1> DEFINE signals == Signals(d, m, r)
<1>1. Decide(p, d, m, r).blocked = ShouldBlock(p, signals)
  BY DEF Decide
<1>2. /\ DOMAIN signals = DOMAIN d
      /\ Blocking(signals) = {i \in DOMAIN d : Inspect(d[i], m, r).blocked}
  BY BlockingOf
<1> HIDE DEF signals
<1>3. CASE p = "ANY"
  BY <1>1, <1>2, <1>3 DEF ShouldBlock
<1>4. CASE p # "ANY"
  BY <1>1, <1>2, <1>4 DEF ShouldBlock
<1>5. QED BY <1>3, <1>4

(* Whoever is named in a reason objected.                                      *)
LEMMA ReasonMeans ==
  ASSUME NEW p \in Policies, NEW d \in DetectorTuple, NEW m, NEW r
  PROVE  /\ Decide(p, d, m, r).blocked <=> Decide(p, d, m, r).reason # {}
         /\ \A cause \in Decide(p, d, m, r).reason :
              \E i \in DOMAIN d : cause[1] = d[i] /\ Inspect(d[i], m, r).blocked
<1> DEFINE signals == Signals(d, m, r)
<1>1. /\ Decide(p, d, m, r).blocked = ShouldBlock(p, signals)
      /\ Decide(p, d, m, r).reason = Reason(p, signals)
  BY DEF Decide
<1>2. /\ DOMAIN signals = DOMAIN d
      /\ Blocking(signals) = {i \in DOMAIN d : Inspect(d[i], m, r).blocked}
  BY BlockingOf
<1>3. \A i \in DOMAIN d : signals[i].detector = d[i]
  BY SignalName, TupleFacts DEF Signals
<1>4. ShouldBlock(p, signals) => Blocking(signals) # {}
  BY <1>2, TupleFacts DEF ShouldBlock
<1> HIDE DEF signals
<1>5. ASSUME ShouldBlock(p, signals)
      PROVE  Reason(p, signals) # {}
  <2>1. PICK i \in Blocking(signals) : TRUE
    BY <1>4, <1>5
  <2>2. <<signals[i].detector, signals[i].cause>> \in Reason(p, signals)
    BY <1>5 DEF Reason
  <2>3. QED BY <2>2
<1>6. ~ShouldBlock(p, signals) => Reason(p, signals) = {}
  BY DEF Reason
<1>7. \A cause \in Reason(p, signals) :
        \E i \in DOMAIN d : cause[1] = d[i] /\ Inspect(d[i], m, r).blocked
  <2>1. SUFFICES ASSUME NEW cause \in Reason(p, signals)
                 PROVE  \E i \in DOMAIN d : cause[1] = d[i] /\ Inspect(d[i], m, r).blocked
    OBVIOUS
  <2>2. ShouldBlock(p, signals)
    BY <1>6
  <2>3. PICK i \in Blocking(signals) : cause = <<signals[i].detector, signals[i].cause>>
    BY <2>2 DEF Reason
  <2>4. QED BY <2>3, <1>2, <1>3
<1>8. QED BY <1>1, <1>5, <1>6, <1>7

------------------------------------------------------------------------------
Sorts ==
  /\ policy \in Policies
  /\ detectors \in DetectorTuple
  /\ model \in Model
  /\ request \in Request

(* They keep these types.                                                      *)
LEMMA SortsInv == Spec => []Sorts
<1>1. Init => Sorts
  BY DeploymentAssumption DEF Init, Sorts
<1>2. Sorts /\ [Next]_vars => Sorts'
  BY DeploymentAssumption DEF Sorts, Next, Redeploy, Retrain, Ask, vars
<1>3. QED BY <1>1, <1>2, PTL DEF Spec

(* Types, and a reason exactly for what is blocked.                            *)
THEOREM DecisionTypes == Spec => []TypeOK
<1>1. Sorts => TypeOK
  BY DecideType, ReasonMeans DEF Sorts, TypeOK, Verdict
<1>2. QED BY <1>1, SortsInv, PTL

(* Under ALL, an HMM without a model for the partition keeps every request from*)
(* being blocked, whatever the rules say.                                      *)
THEOREM FailOpenVeto == Spec => []AbstentionVetoesAll
<1>1. Sorts => AbstentionVetoesAll
  <2>1. SUFFICES ASSUME Sorts, policy = "ALL", "hmm" \in Deployed, ~Covered(model, request)
                 PROVE  ~Verdict.blocked
    BY DEF AbstentionVetoesAll
  <2>2. PICK i \in DOMAIN detectors : detectors[i] = "hmm"
    BY <2>1 DEF Deployed
  <2>3. Inspect("hmm", model, request) = HmmInspect(model, request)
    BY DEF Inspect
  <2>4. ~HmmInspect(model, request).blocked
    <3>1. request \in Request /\ ~Anomalous(model, request)
      BY <2>1 DEF Sorts, Anomalous
    <3>2. QED BY <3>1, HmmBlocks
  <2>5. ~Inspect(detectors[i], model, request).blocked
    BY <2>2, <2>3, <2>4
  <2>6. Verdict.blocked <=> \A j \in DOMAIN detectors : Inspect(detectors[j], model, request).blocked
    BY <2>1, BlockedMeans DEF Sorts, Verdict
  <2>7. QED BY <2>5, <2>6
<1>2. QED BY <1>1, SortsInv, PTL

(* A detector named in a reason would have blocked the request alone.          *)
THEOREM WitnessedReason == Spec => []ReasonIsWitness
<1>1. Sorts => ReasonIsWitness
  <2>1. SUFFICES ASSUME Sorts, NEW cause \in Verdict.reason
                 PROVE  Decide("ANY", <<cause[1]>>, model, request).blocked
    BY DEF ReasonIsWitness
  <2>2. PICK i \in DOMAIN detectors :
          cause[1] = detectors[i] /\ Inspect(detectors[i], model, request).blocked
    BY <2>1, ReasonMeans DEF Sorts, Verdict
  <2> DEFINE alone == <<cause[1]>>
  <2>3. cause[1] \in {"ruleset", "hmm"}
    BY <2>1, <2>2, TupleFacts DEF Sorts
  <2>4. alone \in DetectorTuple /\ DOMAIN alone = {1} /\ alone[1] = cause[1]
    BY <2>3 DEF DetectorTuple
  <2>5. Inspect(alone[1], model, request).blocked
    BY <2>2, <2>4
  <2> HIDE DEF alone
  <2>6. "ANY" \in Policies
    BY DEF Policies
  <2>7. Decide("ANY", alone, model, request).blocked
    BY <2>4, <2>5, <2>6, BlockedMeans
  <2>8. QED BY <2>7 DEF alone
<1>2. QED BY <1>1, SortsInv, PTL

------------------------------------------------------------------------------
(* Training that leaves the request's partition as it was leaves its verdict.  *)
THEOREM IsolatedPartitions == Spec => PartitionsIsolated
<1>1. ASSUME Sorts, Sorts', policy' = policy, detectors' = detectors, request' = request,
             model'[request.key] = model[request.key]
      PROVE  Verdict' = Verdict
  <2>1. HmmInspect(model', request) = HmmInspect(model, request)
    <3>1. Anomalous(model', request) = Anomalous(model, request)
      BY <1>1 DEF Anomalous, Covered
    <3>2. QED BY <1>1, <3>1, HmmBlocks DEF Sorts
  <2>2. \A x : Inspect(x, model', request) = Inspect(x, model, request)
    BY <2>1 DEF Inspect
  <2>3. Signals(detectors, model', request) = Signals(detectors, model, request)
    BY <2>2 DEF Signals
  <2>4. QED BY <1>1, <2>3 DEF Verdict, Decide
<1>2. Sorts /\ Sorts' =>
        [(policy' = policy /\ detectors' = detectors /\ request' = request
          /\ model'[request.key] = model[request.key]) => Verdict' = Verdict]_vars
  BY <1>1
<1>3. QED BY <1>2, SortsInv, PTL DEF PartitionsIsolated

(* One more detector only adds blocks under ANY and only removes them under    *)
(* ALL.                                                                        *)
THEOREM OneWay == Spec => DetectorsMoveOneWay
<1>1. ASSUME Sorts, Sorts', policy' = policy, model' = model, request' = request,
             Deployed \subseteq Deployed'
      PROVE  IF policy = "ANY" THEN Verdict.blocked => Verdict'.blocked
                               ELSE Verdict'.blocked => Verdict.blocked
  <2>1. \A i \in DOMAIN detectors : \E j \in DOMAIN detectors' : detectors'[j] = detectors[i]
    BY <1>1 DEF Deployed
  <2>2. Verdict.blocked <=>
          IF policy = "ANY" THEN \E i \in DOMAIN detectors : Inspect(detectors[i], model, request).blocked
                            ELSE \A i \in DOMAIN detectors : Inspect(detectors[i], model, request).blocked
    BY <1>1, BlockedMeans DEF Sorts, Verdict
  <2>3. Verdict'.blocked <=>
          IF policy = "ANY" THEN \E i \in DOMAIN detectors' : Inspect(detectors'[i], model, request).blocked
                            ELSE \A i \in DOMAIN detectors' : Inspect(detectors'[i], model, request).blocked
    BY <1>1, BlockedMeans DEF Sorts, Verdict
  <2>4. QED BY <2>1, <2>2, <2>3
<1>2. Sorts /\ Sorts' =>
        [(policy' = policy /\ model' = model /\ request' = request
          /\ Deployed \subseteq Deployed')
           => IF policy = "ANY" THEN Verdict.blocked => Verdict'.blocked
                                ELSE Verdict'.blocked => Verdict.blocked]_vars
  BY <1>1
<1>3. QED BY <1>2, SortsInv, PTL DEF DetectorsMoveOneWay
==============================================================================
