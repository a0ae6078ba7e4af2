------------------------------ MODULE WafSystem ------------------------------
(* The whole WAF: the offline half (TrainPipeline) and the inspectors          *)
(* (KafkaInspector) meet in one place, the model file.  An inspector that      *)
(* starts unpickles whatever the file holds; trainers truncate and fill it     *)
(* with no regard for who reads.  Where KafkaInspector reads from a store that *)
(* is always whole, this module shows that the file is as good as one.         *)
(* Bounds: those of the two modules; MaxSendFailures is MaxLostFlows in the    *)
(* training topics and MaxLostVerdicts in the verdict topic.                   *)
EXTENDS Integers, Sequences, FiniteSets

CONSTANTS File, Ratios, Limits, Keys, MinTrain, Trainers, NoFile, Torn,
          MaxProductions, MaxTrainings, MaxLostFlows, MaxTimeouts, MaxCrashes,
          Inspectors, NoOwner, NoModel, Requests, Policy, Detectors,
          MaxRequests, MaxVerdicts, MaxLostVerdicts, MaxDisruptions,
          Thresholds,        \* the values calibrate() may set
          Threshold(_, _)    \* ... and the one it sets for a detector's partition

VARIABLES
  normal, validation, stage, todo, later, tpc, fit, held, detector, file, saved, spent,
  requests, verdicts, lost, unacked, committed, owner, pc, pos, buffered,
  disruptions, resends,
  store,     \* the thresholds of the last detector written to the end (history)
  loaded,    \* per inspector: the thresholds of the detector it unpickled
  retrains   \* saves that changed a threshold or the coverage (history)

Pipe == INSTANCE TrainPipeline WITH MaxSendFailures <- MaxLostFlows

pipeVars == <<normal, validation, stage, todo, later, tpc, fit, held, detector,
              file, saved, spent>>
wireVars == <<requests, verdicts, lost, unacked, committed, owner, pc, pos, buffered,
              disruptions, resends>>
modelVars == <<store, loaded, retrains>>
vars     == <<pipeVars, wireVars, modelVars>>

(* What inspection asks of a detector: the threshold of each partition.        *)
ModelOf(d) ==
  [k \in Keys |-> IF d \notin {NoFile, Torn} /\ k \in d.covered
                  THEN Threshold(d, k) ELSE NoModel]

(* The inspectors as KafkaInspector describes them, over the last whole save.  *)
Wire == INSTANCE KafkaInspector WITH
          Models          <- [Keys -> Thresholds \cup {NoModel}],
          MaxSendFailures <- MaxLostVerdicts,
          MaxRetrains     <- MaxTrainings

ASSUME SystemAssumption ==
  /\ Pipe!PipelineAssumption
  /\ Wire!NoModelAssumption /\ Wire!InspectorAssumption
  /\ MaxProductions \in Nat /\ MaxTrainings \in Nat /\ MaxLostFlows \in Nat
  /\ Thresholds \subseteq Nat
  /\ LET counts == 0 .. (MaxProductions * Len(File) + MaxLostFlows)
     IN  \A d \in [covered : SUBSET Keys, fit : SUBSET (DOMAIN File),
                   held : SUBSET (DOMAIN File),
                   trainCount : counts, validationCount : counts], k \in Keys :
           Threshold(d, k) \in Thresholds

Init ==
  /\ Pipe!Init
  /\ requests = <<>> /\ verdicts = <<>> /\ lost = {} /\ unacked = {}
  /\ committed = 0 /\ owner = NoOwner
  /\ pc       = [p \in Inspectors |-> "down"]
  /\ pos      = [p \in Inspectors |-> 0]
  /\ buffered = [p \in Inspectors |-> 0]
  /\ store = ModelOf(NoFile)
  /\ loaded   = [p \in Inspectors |-> ModelOf(NoFile)]
  /\ disruptions = 0 /\ resends = 0 /\ retrains = 0

Producing == Pipe!Producing /\ UNCHANGED <<wireVars, modelVars>>

Training(t) ==
  /\ Pipe!Training(t)
  /\ store' = ModelOf(saved')
  /\ retrains' = IF store' = store THEN retrains ELSE retrains + 1
  /\ UNCHANGED <<wireVars, loaded>>

(* Mutant: whatever is not a detector is taken for one that nobody trained.    *)
MutCanLoad == file # NoFile

(* repository.load: a file that is missing or cut short raises; the process    *)
(* ends before it subscribes, and the next attempt is another start.           *)
CanLoad == Pipe!Loadable

Start(p) ==
  /\ pc[p] = "down" /\ CanLoad
  /\ pc' = [pc EXCEPT ![p] = "polling"]
  /\ loaded' = [loaded EXCEPT ![p] = ModelOf(file)]
  /\ pos' = [pos EXCEPT ![p] = 0]
  /\ buffered' = [buffered EXCEPT ![p] = 0]
  /\ UNCHANGED <<pipeVars, requests, verdicts, lost, unacked, committed, owner,
                 disruptions, resends, store, retrains>>

Submit == Wire!Submit /\ UNCHANGED <<pipeVars, modelVars>>

Arrive == Wire!Arrive /\ UNCHANGED <<pipeVars, modelVars>>

(* What an inspector does once it runs has nothing to do with the file.        *)
Serve(p) ==
  /\ UNCHANGED <<pipeVars, modelVars>>
  /\ \/ Wire!Assign(p) \/ Wire!Poll(p) \/ Wire!Fetch(p)
     \/ Wire!Answer(p) \/ Wire!Raise(p)

Suffer(p) ==
  /\ UNCHANGED <<pipeVars, modelVars>>
  /\ \/ Wire!AnswerLost(p) \/ Wire!Resend(p)
     \/ Wire!AutoCommit(p) \/ Wire!Evict(p) \/ Wire!Crash(p)

Next == \/ Producing
        \/ \E t \in Trainers : Training(t)
        \/ Submit \/ Arrive
        \/ \E p \in Inspectors : Start(p) \/ Serve(p) \/ Suffer(p)

Spec == Init /\ [][Next]_vars

(* A train command that was started goes on; none has to be started.           *)
GoOn(t) ==
  /\ Pipe!PollValidation(t) \/ Pipe!Train(t) \/ Pipe!OpenFile(t) \/ Pipe!WriteFile(t)
  /\ Training(t)

(* Processes are scheduled, and inspectors restarted; nothing else is fair.    *)
FairSpec ==
  /\ Spec
  /\ \A p \in Inspectors : WF_vars(Start(p) \/ Serve(p))
  /\ \A t \in Trainers : WF_vars(GoOn(t))

------------------------------------------------------------------------------
(* The inspectors, which read a file that is truncated and rewritten under     *)
(* their hands, do what they would do over a store that always holds the last  *)
(* detector written to the end.                                                *)
WireSpec == Wire!Spec

(* A restart never turns protection off: with one train command at a time      *)
(* whose polls reach the end of the topics, the detector an inspector reads    *)
(* covers every partition that the one it read before did, also when producers *)
(* die half-way and trainings are killed.                                      *)
Protected(model) == {k \in Keys : model[k] # NoModel}

ReloadKeepsCoverage ==
  [][\A p \in Inspectors : Protected(loaded[p]) \subseteq Protected(loaded'[p])]_vars

(* What the store holds is the last whole save, and so does a file that can be *)
(* loaded; it has a threshold or none for every partition, as what inspectors  *)
(* loaded has.                                                                 *)
StoreIsSaved ==
  /\ store = ModelOf(saved)
  /\ store \in [Keys -> Thresholds \cup {NoModel}]
  /\ loaded \in [Inspectors -> [Keys -> Thresholds \cup {NoModel}]]
  /\ Pipe!Loadable => file = saved

(* The rows a producer has still to publish to each topic.                     *)
NormalLeft == IF stage = "normal" THEN todo ELSE {}
ValidationLeft ==
  CASE stage = "normal" -> later [] stage = "validation" -> todo [] OTHER -> {}

(* A topic never holds more rows than the producers that were started read,    *)
(* those still to be published counted in, and late copies of them.            *)
TopicsBounded ==
  /\ spent.productions <= MaxProductions /\ spent.failures <= MaxLostFlows
  /\ Len(normal) + Cardinality(NormalLeft)
       <= spent.productions * Len(File) + spent.failures
  /\ Len(validation) + Cardinality(ValidationLeft)
       <= spent.productions * Len(File) + spent.failures

(* Each save that replaced the model ended a training of its own.              *)
UnderWay == {t \in Trainers : tpc[t] # "idle"}

TrainingsPaid ==
  /\ IsFiniteSet(UnderWay) /\ retrains \in Nat
  /\ retrains + Cardinality(UnderWay) <= spent.trainings
  /\ spent.trainings <= MaxTrainings

(* A training under way has read no less of either topic than the one whose    *)
(* detector was saved last, and nobody has loaded one that covers more.        *)
TrainsOnMore ==
  /\ saved # NoFile =>
       /\ saved.trainCount <= Len(normal) /\ saved.validationCount <= Len(validation)
       /\ \A t \in Trainers :
            /\ tpc[t] # "idle" => saved.trainCount <= Len(fit[t])
            /\ tpc[t] \notin {"idle", "normal"} => saved.validationCount <= Len(held[t])
  /\ \A t \in Trainers :
       tpc[t] \in {"trained", "writing"} => detector[t] = Pipe!Trained(fit[t], held[t])
  /\ \A p \in Inspectors : Protected(loaded[p]) \subseteq Protected(store)

(* An inspector that comes up in the middle of a save is not lost: as soon as  *)
(* the file stays whole, every request is decided and sent, unless one raises. *)
InspectsOnceLoadable ==
  <>[]Pipe!Loadable =>
    \A i \in 1 .. MaxRequests :
      (i \in DOMAIN requests /\ Wire!Readable(i)) ~> i \in Wire!Handled

(* A file that is being replaced becomes loadable again, unless a command was  *)
(* killed; whatever the trainer found to train on.                             *)
TornHeals == file = Torn ~> (Pipe!Loadable \/ spent.crashes > 0)
==============================================================================
