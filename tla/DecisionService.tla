--------------------------- MODULE DecisionService ---------------------------
(* A BlockDecisionService over the life of a deployment: it is rebuilt with     *)
(* other detectors or another policy, the model it holds is trained again, and  *)
(* requests are put to it.  The verdict of every state is Decide's; what is     *)
(* stated is how verdicts before and after a change relate.                     *)
EXTENDS BlockDecision

CONSTANTS Requests, Models, Deployments

ASSUME DeploymentAssumption ==
  /\ Requests \subseteq Request
  /\ Models \subseteq Model
  /\ Deployments \subseteq DetectorTuple

VARIABLES policy, detectors, model, request

vars == <<policy, detectors, model, request>>

Init == /\ policy \in Policies
        /\ detectors \in Deployments
        /\ model \in Models
        /\ request \in Requests

(* A service refuses to be built without a detector: Deployments has no <<>>.   *)
Redeploy == /\ policy' \in Policies
            /\ detectors' \in Deployments
            /\ UNCHANGED <<model, request>>

Retrain == model' \in Models /\ UNCHANGED <<policy, detectors, request>>

Ask == request' \in Requests /\ UNCHANGED <<policy, detectors, model>>

Next == Redeploy \/ Retrain \/ Ask

Spec == Init /\ [][Next]_vars

------------------------------------------------------------------------------
Verdict == Decide(policy, detectors, model, request)

Deployed == {detectors[i] : i \in DOMAIN detectors}

(* The types, and a reason exactly for the requests that are blocked: a caller  *)
(* that reads "allowed" may let the request through.                            *)
TypeOK ==
  /\ policy \in Policies
  /\ detectors \in DetectorTuple
  /\ model \in Model
  /\ request \in Request
  /\ Verdict \in [blocked : BOOLEAN, reason : SUBSET ({"ruleset", "hmm"} \X Nat)]
  /\ Verdict.blocked <=> Verdict.reason # {}

(* Failing open goes through ALL as a veto: while the HMM has no model for the  *)
(* request's partition, a service under ALL that has an HMM blocks nothing,     *)
(* whatever rules the request matches.                                          *)
AbstentionVetoesAll ==
  (policy = "ALL" /\ "hmm" \in Deployed /\ ~Covered(model, request)) => ~Verdict.blocked

(* Another detector can only add blocks under ANY and only remove them under    *)
(* ALL, and the order of the detectors changes no decision.                     *)
DetectorsMoveOneWay ==
  [][(policy' = policy /\ model' = model /\ request' = request
      /\ Deployed \subseteq Deployed')
       => IF policy = "ANY" THEN Verdict.blocked => Verdict'.blocked
                            ELSE Verdict'.blocked => Verdict.blocked]_vars

(* Partitions are isolated: training that leaves the request's own partition    *)
(* as it was changes nothing of its verdict, also when it is the first training *)
(* of all.                                                                      *)
PartitionsIsolated ==
  [][(policy' = policy /\ detectors' = detectors /\ request' = request
      /\ model'[request.key] = model[request.key])
       => Verdict' = Verdict]_vars

(* The reason names only detectors that would block the request alone.          *)
ReasonIsWitness ==
  \A cause \in Verdict.reason :
    Decide("ANY", <<cause[1]>>, model, request).blocked
==============================================================================
