---------------------------- MODULE TrainPipeline ----------------------------
(* The offline half of the pipe: produce-train publishes the two halves of a   *)
(* CSV file to the training topics, train polls them, trains a detector and    *)
(* writes it over the model file, evaluate and the inspectors read that file.  *)
(* Every command is a process of its own; the topics only ever grow.           *)
(* Bounds: MaxProductions (produce-train runs), MaxTrainings (train runs),     *)
(* MaxSendFailures (publishes that never arrive, or once more), MaxTimeouts    *)
(* (polls that give up before the end of the topic), MaxCrashes.               *)
EXTENDS CsicSource

CONSTANTS File, Ratios, Limits, Keys, MinTrain, Trainers, NoFile, Torn,
          MaxProductions, MaxTrainings, MaxSendFailures, MaxTimeouts, MaxCrashes

ASSUME PipelineAssumption ==
  /\ File \in Seq([benign : BOOLEAN, key : Keys])
  /\ Ratios \subseteq {r \in Nat \X (Nat \ {0}) : r[1] < r[2]}
  /\ Limits \subseteq Nat
  /\ MinTrain \in Nat
  /\ NoFile # Torn
  /\ {NoFile, Torn} \cap [covered : SUBSET Keys, fit : SUBSET (DOMAIN File),
                          held : SUBSET (DOMAIN File),
                          trainCount : Nat, validationCount : Nat] = {}

VARIABLES
  normal, validation,  \* the training topics: rows of the file, in arrival order
  stage,               \* produce-train: "idle", "normal" or "validation"
  todo, later,         \* the rows it has still to publish: in this stage, in the next
  tpc,                 \* per trainer: "idle", "normal", "polled", "trained", "writing"
  fit, held,           \* per trainer: what it polled from the two topics
  detector,            \* per trainer: what train() left in memory
  file,                \* the model file: NoFile, Torn, or a detector
  saved,               \* the last detector written to the end (history)
  spent                \* how much of each bound is used up

topicVars    == <<normal, validation>>
producerVars == <<stage, todo, later>>
trainerVars  == <<tpc, fit, held, detector>>
fileVars     == <<file, saved>>
vars         == <<topicVars, producerVars, trainerVars, fileVars, spent>>

Rows(batch) == {batch[i] : i \in DOMAIN batch}

(* The flows of a batch that fall in a partition; a row published twice is two.*)
Group(batch, k) == {i \in DOMAIN batch : File[batch[i]].key = k}

(* A partition gets a model if it has enough flows to fit and one to calibrate.*)
Fittable(fitted, calibrated, k) ==
  Cardinality(Group(fitted, k)) >= MinTrain /\ Group(calibrated, k) # {}

(* What train() makes of two batches; partitions that are not fittable are     *)
(* skipped, possibly all of them.                                              *)
Trained(fitted, calibrated) ==
  [covered         |-> {k \in Keys : /\ Group(fitted, k) # {}
                                     /\ Fittable(fitted, calibrated, k)},
   fit             |-> Rows(fitted),
   held            |-> Rows(calibrated),
   trainCount      |-> Len(fitted),
   validationCount |-> Len(calibrated)]

NewDetector == Trained(<<>>, <<>>)
Spent == [productions |-> 0, trainings |-> 0, failures |-> 0, timeouts |-> 0, crashes |-> 0]

Init ==
  /\ normal = <<>> /\ validation = <<>>
  /\ stage = "idle" /\ todo = {} /\ later = {}
  /\ tpc = [t \in Trainers |-> "idle"]
  /\ fit = [t \in Trainers |-> <<>>]
  /\ held = [t \in Trainers |-> <<>>]
  /\ detector = [t \in Trainers |-> NewDetector]
  /\ file = NoFile /\ saved = NoFile
  /\ spent = Spent

(* The command starts: the split is a function of the file and the arguments.  *)
ProduceTrain(ratio, limit) ==
  /\ stage = "idle" /\ spent.productions < MaxProductions
  /\ stage' = "normal"
  /\ todo' = NormalRows(File, limit, Stride(ratio))
  /\ later' = ValidationRows(File, limit, Stride(ratio))
  /\ spent' = [spent EXCEPT !.productions = @ + 1]
  /\ UNCHANGED <<topicVars, trainerVars, fileVars>>

NextRow == CHOOSE j \in todo : \A k \in todo : j <= k

(* Mutant: the row is named by its zero-based number.                          *)
MutPublished(topic) == Append(topic, NextRow - 1)

Published(topic) == Append(topic, NextRow)

(* One flow is published, and flushed, before the next row is read.            *)
PublishFlow ==
  /\ stage # "idle" /\ todo # {}
  /\ todo' = todo \ {NextRow}
  /\ \/ stage = "normal"     /\ normal' = Published(normal) /\ UNCHANGED validation
     \/ stage = "validation" /\ validation' = Published(validation) /\ UNCHANGED normal
  /\ UNCHANGED <<stage, later, trainerVars, fileVars, spent>>

(* A send that fails is not noticed: the row is counted and passed over.       *)
PublishLost ==
  /\ stage # "idle" /\ todo # {} /\ spent.failures < MaxSendFailures
  /\ todo' = todo \ {NextRow}
  /\ spent' = [spent EXCEPT !.failures = @ + 1]
  /\ UNCHANGED <<topicVars, stage, later, trainerVars, fileVars>>

(* A send that was not acknowledged in time was repeated, and the broker       *)
(* writes the first copy of that row after all, now or much later.             *)
LateCopy ==
  /\ spent.failures < MaxSendFailures
  /\ \/ \E j \in Rows(normal)     : normal' = Append(normal, j) /\ UNCHANGED validation
     \/ \E j \in Rows(validation) : validation' = Append(validation, j) /\ UNCHANGED normal
  /\ spent' = [spent EXCEPT !.failures = @ + 1]
  /\ UNCHANGED <<producerVars, trainerVars, fileVars>>

(* The file is read a second time, for the held-out rows.                      *)
TurnToValidation ==
  /\ stage = "normal" /\ todo = {}
  /\ stage' = "validation"
  /\ todo' = later /\ later' = {}
  /\ UNCHANGED <<topicVars, trainerVars, fileVars, spent>>

ProduceDone ==
  /\ stage = "validation" /\ todo = {}
  /\ stage' = "idle"
  /\ UNCHANGED <<topicVars, todo, later, trainerVars, fileVars, spent>>

ProduceCrash ==
  /\ stage # "idle" /\ spent.crashes < MaxCrashes
  /\ stage' = "idle" /\ todo' = {} /\ later' = {}
  /\ spent' = [spent EXCEPT !.crashes = @ + 1]
  /\ UNCHANGED <<topicVars, trainerVars, fileVars>>

(* Mutant: the first half of the topic was drained by an earlier poll.         *)
MutBatch(topic, n) == SubSeq(topic, (n \div 2) + 1, n)

(* What a poll that reads up to offset n returns.  It consumes nothing: the    *)
(* next poll starts at the first record again.                                 *)
Batch(topic, n) == SubSeq(topic, 1, n)

(* The train command starts: list(source.normal()).  A poll ends when no       *)
(* record came for a while: at the end of the topic, or before it if the       *)
(* broker is slow.                                                             *)
PollNormal(t) ==
  /\ tpc[t] = "idle" /\ spent.trainings < MaxTrainings
  /\ tpc' = [tpc EXCEPT ![t] = "normal"]
  /\ \E n \in 0 .. Len(normal) :
       /\ n < Len(normal) => spent.timeouts < MaxTimeouts
       /\ fit' = [fit EXCEPT ![t] = Batch(normal, n)]
       /\ spent' = [spent EXCEPT !.trainings = @ + 1,
                                 !.timeouts = IF n < Len(normal) THEN @ + 1 ELSE @]
  /\ UNCHANGED <<topicVars, producerVars, held, detector, fileVars>>

(* Later, another poll: list(source.validation()).                             *)
PollValidation(t) ==
  /\ tpc[t] = "normal"
  /\ tpc' = [tpc EXCEPT ![t] = "polled"]
  /\ \E n \in 0 .. Len(validation) :
       /\ n < Len(validation) => spent.timeouts < MaxTimeouts
       /\ held' = [held EXCEPT ![t] = Batch(validation, n)]
       /\ spent' = [spent EXCEPT !.timeouts = IF n < Len(validation) THEN @ + 1 ELSE @]
  /\ UNCHANGED <<topicVars, producerVars, fit, detector, fileVars>>

(* detector.train(normal, validation).                                         *)
Train(t) ==
  /\ tpc[t] = "polled"
  /\ tpc' = [tpc EXCEPT ![t] = "trained"]
  /\ detector' = [detector EXCEPT ![t] = Trained(fit[t], held[t])]
  /\ UNCHANGED <<topicVars, producerVars, fit, held, fileVars, spent>>

(* repository.save: write_bytes truncates the file ...                         *)
OpenFile(t) ==
  /\ tpc[t] = "trained"
  /\ tpc' = [tpc EXCEPT ![t] = "writing"]
  /\ file' = Torn
  /\ UNCHANGED <<topicVars, producerVars, fit, held, detector, saved, spent>>

(* The process ends and its memory with it.                                    *)
Exit(t) ==
  /\ tpc' = [tpc EXCEPT ![t] = "idle"]
  /\ fit' = [fit EXCEPT ![t] = <<>>]
  /\ held' = [held EXCEPT ![t] = <<>>]
  /\ detector' = [detector EXCEPT ![t] = NewDetector]

(* Mutant: an untrained detector is refused after the file was opened.         *)
MutWritten(t) == IF detector[t].covered = {} THEN Torn ELSE detector[t]

Written(t) == detector[t]

(* ... and then fills it.  Nothing asks whether the detector is trained.       *)
WriteFile(t) ==
  /\ tpc[t] = "writing"
  /\ file' = Written(t) /\ saved' = detector[t]
  /\ Exit(t)
  /\ UNCHANGED <<topicVars, producerVars, spent>>

(* The command dies, or train() raises.                                        *)
TrainCrash(t) ==
  /\ tpc[t] # "idle" /\ spent.crashes < MaxCrashes
  /\ Exit(t)
  /\ spent' = [spent EXCEPT !.crashes = @ + 1]
  /\ UNCHANGED <<topicVars, producerVars, fileVars>>

Producing ==
  \/ \E ratio \in Ratios, limit \in Limits : ProduceTrain(ratio, limit)
  \/ PublishFlow \/ PublishLost \/ LateCopy \/ TurnToValidation
  \/ ProduceDone \/ ProduceCrash

Training(t) ==
  \/ PollNormal(t) \/ PollValidation(t) \/ Train(t)
  \/ OpenFile(t) \/ WriteFile(t) \/ TrainCrash(t)

Next == Producing \/ \E t \in Trainers : Training(t)

Spec == Init /\ [][Next]_vars

------------------------------------------------------------------------------
(* What load() can turn back into a detector.                                  *)
Loadable == file \notin {NoFile, Torn}

Detector == [covered : SUBSET Keys, fit : SUBSET (DOMAIN File),
             held : SUBSET (DOMAIN File), trainCount : Nat, validationCount : Nat]

Tally == [productions : Nat, trainings : Nat, failures : Nat, timeouts : Nat, crashes : Nat]

(* The types of the topics, the processes and the file.                        *)
TypeOK ==
  /\ normal \in Seq(DOMAIN File) /\ validation \in Seq(DOMAIN File)
  /\ stage \in {"idle", "normal", "validation"}
  /\ todo \subseteq DOMAIN File /\ later \subseteq DOMAIN File
  /\ tpc \in [Trainers -> {"idle", "normal", "polled", "trained", "writing"}]
  /\ fit \in [Trainers -> Seq(DOMAIN File)]
  /\ held \in [Trainers -> Seq(DOMAIN File)]
  /\ detector \in [Trainers -> Detector]
  /\ file \in Detector \cup {NoFile, Torn}
  /\ saved \in Detector \cup {NoFile}
  /\ spent \in Tally

(* No flow a detector is calibrated on was also fitted, however often the      *)
(* producer was run, cut short or killed, and whenever the trainer polled:     *)
(* holds as long as every run used the same ratio.                             *)
HeldOutUnseen ==
  /\ Rows(normal) \cap Rows(validation) = {}
  /\ \A t \in Trainers : Rows(fit[t]) \cap Rows(held[t]) = {}
  /\ Loadable => file.fit \cap file.held = {}

(* Detectors of whichever trainers compare by the two counts they record: the   *)
(* one that was given no less of either topic covers every partition the other  *)
(* covers, also when a producer was publishing meanwhile.  Training again never *)
(* drops a partition unless a poll ended early.                                 *)
Compared == {detector[t] : t \in Trainers} \cup ({file} \ {NoFile, Torn})

MoreDataCoversMore ==
  \A c, d \in Compared :
    (c.trainCount <= d.trainCount /\ c.validationCount <= d.validationCount)
      => c.covered \subseteq d.covered

(* The model file is cut short only while a trainer is saving or after one was *)
(* killed in it, also when two of them save at once.                           *)
TornOnlyWhileWriting ==
  file = Torn => spent.crashes > 0 \/ \E t \in Trainers : tpc[t] = "writing"

(* pickle_model_repository.py:3: the file holds a whole detector; once one was *)
(* saved and nobody is saving, it can be loaded.                               *)
SavedStaysLoadable ==
  (saved # NoFile /\ \A t \in Trainers : tpc[t] # "writing") => Loadable
==============================================================================
