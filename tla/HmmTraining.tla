---------------------------- MODULE HmmTraining ------------------------------
(* PartitionedHmm.train on a detector that lives on: the models are dropped,    *)
(* then one partition after the other gets a new one-class model, a single HMM  *)
(* or an ensemble of them, and a threshold, or is skipped.  Any fit and any     *)
(* calibration may raise out of train(), and whoever holds the detector may ask *)
(* it or train it again.  A normal flow is the partition it falls in; of the    *)
(* validation flows of a partition there are the scores that the model fitted   *)
(* in the same training gives them.                                             *)
(* Bounds: MaxTrainings, MaxFailures.                                           *)
EXTENDS Calibration, FiniteSets

CONSTANTS Keys, Samples, Batches, Targets, MinTrain, Ensemble, MaxTrainings, MaxFailures

ASSUME TrainingAssumption ==
  /\ \A s \in Samples : s \in Seq(Int) /\ Sorted(s)
  /\ Batches \subseteq [normal : Seq(Keys), validation : [Keys -> Samples]]
  /\ Targets \subseteq {q \in Fraction : q[1] < q[2]}
  /\ MinTrain \in Nat
  /\ Ensemble \in Nat \ {0}
  /\ MaxTrainings \in Nat /\ MaxFailures \in Nat

VARIABLES
  target,     \* the detector's target_fpr
  pc,         \* "idle", or "loop" while train() is on the stack
  batch,      \* the flows of the last train()
  models,     \* per covered partition, its model: of which training, and its threshold
  todo,       \* the partitions the loop has still to look at
  members,    \* per partition with a model object: how many of its HMMs are fitted
  trainings,  \* how often train() was called
  failures    \* how often it raised

vars == <<target, pc, batch, models, todo, members, trainings, failures>>

NoModels == [k \in {} |-> 0]

NoFlows == [normal |-> <<>>, validation |-> [k \in Keys |-> <<>>]]

Init == /\ target \in Targets
        /\ pc = "idle" /\ batch = NoFlows
        /\ models = NoModels /\ todo = {} /\ members = NoModels
        /\ trainings = 0 /\ failures = 0

Flows(flows, k)  == {i \in DOMAIN flows : flows[i] = k}
Groups(flows)    == {flows[i] : i \in DOMAIN flows}
Arrival(flows, k) == CHOOSE i \in Flows(flows, k) : \A j \in Flows(flows, k) : i <= j

(* Enough flows to fit, and at least one to calibrate on.                       *)
Fittable(b, k) == Cardinality(Flows(b.normal, k)) >= MinTrain /\ b.validation[k] # <<>>

(* Mutant: models of partitions that do not come up again stay.                 *)
MutKeptModels == models

KeptModels == NoModels

(* The flows are grouped and the old models dropped.                            *)
Train(b) ==
  /\ pc = "idle" /\ trainings < MaxTrainings
  /\ pc' = "loop"
  /\ batch' = b /\ todo' = Groups(b.normal)
  /\ models' = KeptModels /\ members' = NoModels
  /\ trainings' = trainings + 1
  /\ UNCHANGED <<target, failures>>

(* Mutant: partitions in the reverse order of their first flow.                 *)
MutNextKey == CHOOSE k \in todo : \A m \in todo : Arrival(batch.normal, k) >= Arrival(batch.normal, m)

(* Partitions come in the order of their first flow.                            *)
NextKey == CHOOSE k \in todo : \A m \in todo : Arrival(batch.normal, k) <= Arrival(batch.normal, m)

Skip == /\ pc = "loop" /\ todo # {} /\ ~Fittable(batch, NextKey)
        /\ todo' = todo \ {NextKey}
        /\ UNCHANGED <<target, pc, batch, models, members, trainings, failures>>

Fitted(k) == IF k \in DOMAIN members THEN members[k] ELSE 0

Fitting == pc = "loop" /\ todo # {} /\ Fittable(batch, NextKey)

(* One HMM of the model is fitted; an ensemble has several.                     *)
FitMember == /\ Fitting /\ Fitted(NextKey) < Ensemble
             /\ members' = [k \in DOMAIN members \cup {NextKey} |->
                              IF k = NextKey THEN Fitted(k) + 1 ELSE members[k]]
             /\ UNCHANGED <<target, pc, batch, models, todo, trainings, failures>>

(* Mutant: calibrated, and kept, once the first HMM is fitted.                  *)
MutReady == Fitted(NextKey) >= 1

Ready == Fitted(NextKey) = Ensemble

(* The threshold is set on the validation flows and the model kept.             *)
Calibrate == /\ Fitting /\ Ready
             /\ models' = [k \in DOMAIN models \cup {NextKey} |->
                             IF k # NextKey THEN models[k]
                             ELSE [training  |-> trainings,
                                   threshold |-> Quantile(batch.validation[k], target)]]
             /\ todo' = todo \ {NextKey}
             /\ UNCHANGED <<target, pc, batch, members, trainings, failures>>

(* A fit raises, or calibrate() after the last one (a target that is no share,  *)
(* a symbol without a column, a model with a dead end, see OneClassScore): the  *)
(* partition at hand and all after it get no model.                             *)
TrainRaises == /\ Fitting /\ failures < MaxFailures
               /\ pc' = "idle" /\ todo' = {}
               /\ failures' = failures + 1
               /\ UNCHANGED <<target, batch, models, members, trainings>>

Return == /\ pc = "loop" /\ todo = {}
          /\ pc' = "idle"
          /\ UNCHANGED <<target, batch, models, todo, members, trainings, failures>>

Next == \/ \E b \in Batches : Train(b)
        \/ Skip \/ FitMember \/ Calibrate \/ TrainRaises \/ Return

Spec == Init /\ [][Next]_vars

------------------------------------------------------------------------------
Covered == DOMAIN models

(* Types; a model is only kept for a partition that qualifies.                  *)
TypeOK ==
  /\ target \in Targets
  /\ pc \in {"idle", "loop"}
  /\ batch \in Batches \cup {NoFlows}
  /\ \A k \in Covered : models[k].training \in 1 .. MaxTrainings
  /\ todo \subseteq Groups(batch.normal)
  /\ members \in [DOMAIN members -> 0 .. Ensemble]
  /\ trainings \in 0 .. MaxTrainings /\ failures \in 0 .. MaxFailures
  /\ \A k \in Covered : Fittable(batch, k)

(* Asking a partition that is covered never meets a model that is not fitted:   *)
(* every HMM behind it is, however training ended.  (A fitted one may still     *)
(* raise, if it has a dead end: OneClassScore.Answerable.)                      *)
AssessNeverRaises == \A k \in Covered : k \in DOMAIN members /\ members[k] = Ensemble

(* A detector never mixes the models of two trainings, also after one that was  *)
(* broken off.                                                                  *)
OneTraining == \A k \in Covered : models[k].training = trainings

(* What a broken-off training covers is a beginning, in the order of arrival:   *)
(* no partition is covered that comes after one that should be and is not.  The *)
(* detector of a training that returned covers all that should be.              *)
CoverageIsPrefix ==
  /\ \A j, k \in Groups(batch.normal) :
       (/\ k \in Covered /\ Fittable(batch, j)
        /\ Arrival(batch.normal, j) < Arrival(batch.normal, k)) => j \in Covered
  /\ pc = "loop" /\ todo = {} =>
       \A k \in Groups(batch.normal) : k \in Covered <=> Fittable(batch, k)

(* normal_hmm.py:182: of the validation flows of a covered partition, those its *)
(* model rejects are fewer than the target's share of all but one of them, plus *)
(* one: never more than one flow above the target, however few the flows and    *)
(* however many scores are equal, whatever became of the other partitions.      *)
RejectsAtMostTarget ==
  \A k \in Covered :
    LET scores == batch.validation[k]
    IN  Cardinality(Rejected(scores, models[k].threshold)) * target[2]
          < (Len(scores) - 1) * target[1] + target[2]

(* A detector trained on the same flows with a larger target has no lower       *)
(* threshold in any partition: what this one blocks, that one blocks too.       *)
LargerTargetBlocksMore ==
  \A k \in Covered, q \in Targets :
    AtMost(target, q) => AtMost(models[k].threshold, Quantile(batch.validation[k], q))
==============================================================================
