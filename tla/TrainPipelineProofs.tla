------------------------- MODULE TrainPipelineProofs -------------------------
(* Machine-checked proofs about TrainPipeline, for every file, limit, minimum, *)
(* number of trainers and bound.                                               *)
EXTENDS TrainPipeline, SequenceTheorems, FiniteSetTheorems, WellFoundedInduction, TLAPS

(* The side of the split a row is on depends on the ratio alone.               *)
FitSide(ratio)  == {j \in DOMAIN File : ~IsValidation(Stride(ratio), BenignIndex(File, j))}
HeldSide(ratio) == {j \in DOMAIN File : IsValidation(Stride(ratio), BenignIndex(File, j))}

(* Every place a row can be in, on its way from the file to a detector, holds  *)
(* rows of one side only.                                                      *)
SidesKept(ratio) ==
  /\ Rows(normal) \subseteq FitSide(ratio) /\ Rows(validation) \subseteq HeldSide(ratio)
  /\ stage = "normal" => todo \subseteq FitSide(ratio) /\ later \subseteq HeldSide(ratio)
  /\ stage = "validation" => todo \subseteq HeldSide(ratio)
  /\ \A t \in Trainers : /\ Rows(fit[t]) \subseteq FitSide(ratio)
                         /\ Rows(held[t]) \subseteq HeldSide(ratio)
                         /\ detector[t].fit \subseteq FitSide(ratio)
                         /\ detector[t].held \subseteq HeldSide(ratio)
  /\ Loadable => file.fit \subseteq FitSide(ratio) /\ file.held \subseteq HeldSide(ratio)

------------------------------------------------------------------------------
(* The row published next is one that is left to publish.                      *)
LEMMA NextRowLeft ==
  ASSUME todo \subseteq DOMAIN File, todo # {}
  PROVE  NextRow \in todo
<1>1. todo \in SUBSET Nat
  BY PipelineAssumption
<1> DEFINE R == OpToRel(<, Nat)
<1>2. \A j, k \in Nat : j < k => <<j, k>> \in R
  BY DEF OpToRel
<1>3. IsWellFoundedOn(R, Nat)
  BY NatLessThanWellFounded
<1> HIDE DEF R
<1>4. PICK j \in todo : \A k \in todo : ~ (<<k, j>> \in R)
  BY <1>1, <1>3, WFMin
<1>5. \A k \in todo : ~ (k < j)
  BY <1>1, <1>2, <1>4
<1>6. \A k \in todo : j <= k
  BY <1>1, <1>5
<1>7. QED BY <1>6 DEF NextRow

(* A poll returns rows of the topic.                                           *)
LEMMA BatchRows ==
  ASSUME NEW S, NEW topic \in Seq(S), NEW n \in 0 .. Len(topic)
  PROVE  Batch(topic, n) \in Seq(S) /\ Rows(Batch(topic, n)) \subseteq Rows(topic)
BY DEF Batch, Rows

(* A published row is added to the topic.                                      *)
LEMMA AppendRows ==
  ASSUME NEW S, NEW topic \in Seq(S), NEW j \in S
  PROVE  Append(topic, j) \in Seq(S) /\ Rows(Append(topic, j)) = Rows(topic) \cup {j}
<1>1. /\ Append(topic, j) \in Seq(S)
      /\ DOMAIN topic = 1 .. Len(topic) /\ Len(topic) \in Nat
      /\ DOMAIN Append(topic, j) = 1 .. (Len(topic) + 1)
      /\ \A i \in 1 .. Len(topic) : Append(topic, j)[i] = topic[i]
      /\ Append(topic, j)[Len(topic) + 1] = j
  BY AppendProperties
<1>2. QED BY <1>1 DEF Rows

(* A late copy adds to a topic a row that it has already.                      *)
LEMMA CopiedRow ==
  ASSUME TypeOK, LateCopy
  PROVE  \E j \in DOMAIN File :
           \/ /\ j \in Rows(normal) /\ Rows(normal') = Rows(normal)
              /\ normal' = Append(normal, j) /\ normal' \in Seq(DOMAIN File)
              /\ validation' = validation
           \/ /\ j \in Rows(validation) /\ Rows(validation') = Rows(validation)
              /\ validation' = Append(validation, j) /\ validation' \in Seq(DOMAIN File)
              /\ normal' = normal
<1>1. Rows(normal) \subseteq DOMAIN File /\ Rows(validation) \subseteq DOMAIN File
  BY DEF TypeOK, Rows
<1>2. CASE \E j \in Rows(normal) : normal' = Append(normal, j) /\ UNCHANGED validation
  <2>1. PICK j \in Rows(normal) : normal' = Append(normal, j) /\ validation' = validation
    BY <1>2
  <2>2. j \in DOMAIN File
    BY <1>1, <2>1
  <2>3. /\ Append(normal, j) \in Seq(DOMAIN File)
        /\ Rows(Append(normal, j)) = Rows(normal) \cup {j}
    BY <2>2, AppendRows DEF TypeOK
  <2>4. QED BY <2>1, <2>2, <2>3
<1>3. CASE \E j \in Rows(validation) : validation' = Append(validation, j) /\ UNCHANGED normal
  <2>1. PICK j \in Rows(validation) : validation' = Append(validation, j) /\ normal' = normal
    BY <1>3
  <2>2. j \in DOMAIN File
    BY <1>1, <2>1
  <2>3. /\ Append(validation, j) \in Seq(DOMAIN File)
        /\ Rows(Append(validation, j)) = Rows(validation) \cup {j}
    BY <2>2, AppendRows DEF TypeOK
  <2>4. QED BY <2>1, <2>2, <2>3
<1>4. QED BY <1>2, <1>3 DEF LateCopy

(* train() makes a detector of any two batches.                                *)
LEMMA TrainedType ==
  ASSUME NEW a \in Seq(DOMAIN File), NEW b \in Seq(DOMAIN File)
  PROVE  Trained(a, b) \in Detector
<1>1. Rows(a) \subseteq DOMAIN File /\ Rows(b) \subseteq DOMAIN File
  BY DEF Rows
<1>2. Len(b) \in Nat
  OBVIOUS
<1>3. QED BY <1>1, <1>2 DEF Trained, Detector

(* An empty batch trains nothing.                                              *)
LEMMA NewDetectorType ==
  NewDetector \in Detector /\ NewDetector.fit = {} /\ NewDetector.held = {}
<1>1. <<>> \in Seq(DOMAIN File) /\ Rows(<<>>) = {}
  BY DEF Rows
<1>2. QED BY <1>1, TrainedType DEF NewDetector, Trained

------------------------------------------------------------------------------
(* Counting up within the bounds keeps the counters natural numbers.           *)
LEMMA TallyTypes ==
  ASSUME NEW s \in Tally, NEW a \in Nat, NEW b \in Nat
  PROVE  /\ [s EXCEPT !.productions = a] \in Tally
         /\ [s EXCEPT !.failures = a] \in Tally
         /\ [s EXCEPT !.timeouts = a] \in Tally
         /\ [s EXCEPT !.crashes = a] \in Tally
         /\ [s EXCEPT !.trainings = a, !.timeouts = b] \in Tally
         /\ s.productions + 1 \in Nat /\ s.failures + 1 \in Nat /\ s.crashes + 1 \in Nat
         /\ s.trainings + 1 \in Nat /\ s.timeouts \in Nat /\ s.timeouts + 1 \in Nat
<1>1. /\ s.productions + 1 \in Nat /\ s.failures + 1 \in Nat /\ s.crashes + 1 \in Nat
      /\ s.trainings + 1 \in Nat /\ s.timeouts \in Nat /\ s.timeouts + 1 \in Nat
  BY DEF Tally
<1>2. [s EXCEPT !.productions = a] \in Tally
  BY DEF Tally
<1>3. [s EXCEPT !.failures = a] \in Tally
  BY DEF Tally
<1>4. [s EXCEPT !.timeouts = a] \in Tally
  BY DEF Tally
<1>5. [s EXCEPT !.crashes = a] \in Tally
  BY DEF Tally
<1>6. [s EXCEPT !.trainings = a, !.timeouts = b] \in Tally
  BY DEF Tally
<1>7. QED BY <1>1, <1>2, <1>3, <1>4, <1>5, <1>6

(* Every step keeps the types.                                                 *)
LEMMA StepTypes == TypeOK /\ [Next]_vars => TypeOK'
<1> SUFFICES ASSUME TypeOK, [Next]_vars PROVE TypeOK'
  OBVIOUS
<1> USE DEF topicVars, producerVars, trainerVars, fileVars
<1>1. ASSUME NEW ratio \in Ratios, NEW limit \in Limits, ProduceTrain(ratio, limit)
      PROVE  TypeOK'
  <2>1. todo' \subseteq DOMAIN File /\ later' \subseteq DOMAIN File
    BY <1>1 DEF ProduceTrain, NormalRows, ValidationRows, BenignRows
  <2>2. spent' \in Tally
    BY <1>1, TallyTypes DEF ProduceTrain, TypeOK
  <2>3. QED BY <1>1, <2>1, <2>2 DEF TypeOK, ProduceTrain
<1>2. CASE PublishFlow
  <2>1. NextRow \in todo /\ NextRow \in DOMAIN File
    BY <1>2, NextRowLeft DEF PublishFlow, TypeOK
  <2>2. Append(normal, NextRow) \in Seq(DOMAIN File) /\ Append(validation, NextRow) \in Seq(DOMAIN File)
    BY <2>1, AppendRows DEF TypeOK
  <2>3. QED BY <1>2, <2>2 DEF PublishFlow, Published, TypeOK
<1>3. CASE PublishLost
  <2>1. spent' \in Tally
    BY <1>3, TallyTypes DEF PublishLost, TypeOK
  <2>2. QED BY <1>3, <2>1 DEF PublishLost, TypeOK
<1>4. CASE TurnToValidation \/ ProduceDone
  BY <1>4 DEF TurnToValidation, ProduceDone, TypeOK
<1>5. CASE ProduceCrash
  <2>1. spent' \in Tally
    BY <1>5, TallyTypes DEF ProduceCrash, TypeOK
  <2>2. QED BY <1>5, <2>1 DEF ProduceCrash, TypeOK
<1>6. ASSUME NEW t \in Trainers, PollNormal(t) PROVE TypeOK'
  <2>1. PICK n \in 0 .. Len(normal) :
          /\ fit' = [fit EXCEPT ![t] = Batch(normal, n)]
          /\ spent' = [spent EXCEPT !.trainings = @ + 1,
                                    !.timeouts = IF n < Len(normal) THEN @ + 1 ELSE @]
    BY <1>6 DEF PollNormal
  <2>2. Batch(normal, n) \in Seq(DOMAIN File)
    BY <2>1, BatchRows DEF TypeOK
  <2>3. spent' \in Tally
    BY <2>1, TallyTypes DEF TypeOK
  <2>4. QED BY <1>6, <2>1, <2>2, <2>3 DEF TypeOK, PollNormal
<1>7. ASSUME NEW t \in Trainers, PollValidation(t) PROVE TypeOK'
  <2>1. PICK n \in 0 .. Len(validation) :
          /\ held' = [held EXCEPT ![t] = Batch(validation, n)]
          /\ spent' = [spent EXCEPT !.timeouts = IF n < Len(validation) THEN @ + 1 ELSE @]
    BY <1>7 DEF PollValidation
  <2>2. Batch(validation, n) \in Seq(DOMAIN File)
    BY <2>1, BatchRows DEF TypeOK
  <2>3. spent' \in Tally
    BY <2>1, TallyTypes DEF TypeOK
  <2>4. QED BY <1>7, <2>1, <2>2, <2>3 DEF TypeOK, PollValidation
<1>8. ASSUME NEW t \in Trainers, Train(t) PROVE TypeOK'
  <2>1. Trained(fit[t], held[t]) \in Detector
    BY TrainedType DEF TypeOK
  <2>2. QED BY <1>8, <2>1 DEF TypeOK, Train
<1>9. ASSUME NEW t \in Trainers, OpenFile(t) PROVE TypeOK'
  BY <1>9 DEF OpenFile, TypeOK
<1>10. <<>> \in Seq(DOMAIN File)
  OBVIOUS
<1>11. ASSUME NEW t \in Trainers, WriteFile(t) PROVE TypeOK'
  <2>1. file' = detector[t] /\ saved' = detector[t] /\ detector[t] \in Detector
    BY <1>11 DEF WriteFile, Written, TypeOK
  <2>2. QED BY <1>10, <1>11, <2>1, NewDetectorType DEF WriteFile, Exit, TypeOK
<1>12. ASSUME NEW t \in Trainers, TrainCrash(t) PROVE TypeOK'
  <2>1. spent' \in Tally
    BY <1>12, TallyTypes DEF TrainCrash, TypeOK
  <2>2. QED BY <1>10, <1>12, <2>1, NewDetectorType DEF TrainCrash, Exit, TypeOK
<1>13. CASE LateCopy
  <2>1. spent' \in Tally
    BY <1>13, TallyTypes DEF LateCopy, TypeOK
  <2>2. normal' \in Seq(DOMAIN File) /\ validation' \in Seq(DOMAIN File)
    BY <1>13, CopiedRow DEF TypeOK
  <2>3. QED BY <1>13, <2>1, <2>2 DEF LateCopy, TypeOK
<1>14. CASE UNCHANGED vars
  BY <1>14 DEF vars, TypeOK
<1>15. QED
  BY <1>1, <1>2, <1>3, <1>4, <1>5, <1>6, <1>7, <1>8, <1>9, <1>11, <1>12, <1>13, <1>14
  DEF Next, Producing, Training

(* Every variable keeps its type, whatever the ratios of the producer runs.    *)
THEOREM PipelineTypes == Spec => []TypeOK
<1>1. Init => TypeOK
  BY NewDetectorType DEF Init, TypeOK, Spent, Tally
<1>2. QED BY <1>1, StepTypes, PTL DEF Spec

------------------------------------------------------------------------------
(* The initial states keep the sides apart: nothing is anywhere.               *)
LEMMA InitSides ==
  ASSUME NEW ratio, Init
  PROVE  SidesKept(ratio)
<1>1. Rows(<<>>) = {}
  BY DEF Rows
<1>2. QED BY <1>1, NewDetectorType DEF Init, SidesKept, Loadable

(* A trainer that ends, by a save or by a crash, keeps nothing in memory.      *)
LEMMA ExitSides ==
  ASSUME TypeOK, NEW ratio, SidesKept(ratio), NEW t \in Trainers, Exit(t)
  PROVE  \A u \in Trainers : /\ Rows(fit'[u]) \subseteq FitSide(ratio)
                             /\ Rows(held'[u]) \subseteq HeldSide(ratio)
                             /\ detector'[u].fit \subseteq FitSide(ratio)
                             /\ detector'[u].held \subseteq HeldSide(ratio)
<1>1. Rows(<<>>) = {}
  BY DEF Rows
<1>2. QED BY <1>1, NewDetectorType DEF TypeOK, SidesKept, Exit

(* Every step keeps the sides apart, if all producer runs use the one ratio.   *)
LEMMA StepSides ==
  ASSUME NEW ratio, Ratios = {ratio}
  PROVE  TypeOK /\ SidesKept(ratio) /\ [Next]_vars => SidesKept(ratio)'
<1> SUFFICES ASSUME TypeOK, SidesKept(ratio), [Next]_vars
             PROVE  SidesKept(ratio)'
  OBVIOUS
<1> USE DEF topicVars, producerVars, trainerVars, fileVars
<1>1. ASSUME NEW limit \in Limits, ProduceTrain(ratio, limit)
      PROVE  SidesKept(ratio)'
  <2>1. /\ todo' \subseteq FitSide(ratio) /\ later' \subseteq HeldSide(ratio)
        /\ stage' = "normal"
    BY <1>1 DEF ProduceTrain, NormalRows, ValidationRows, BenignRows, FitSide, HeldSide
  <2>2. QED BY <1>1, <2>1 DEF SidesKept, ProduceTrain, Loadable
<1>2. CASE PublishFlow
  <2>1. NextRow \in todo /\ NextRow \in DOMAIN File
    BY <1>2, NextRowLeft DEF PublishFlow, TypeOK
  <2>2. CASE stage = "normal"
    <3>1. normal' = Append(normal, NextRow) /\ UNCHANGED validation
      BY <1>2, <2>2 DEF PublishFlow, Published
    <3>2. Rows(normal') = Rows(normal) \cup {NextRow}
      BY <2>1, <3>1, AppendRows DEF TypeOK
    <3>3. QED BY <1>2, <2>1, <2>2, <3>1, <3>2 DEF SidesKept, PublishFlow, Loadable
  <2>3. CASE stage = "validation"
    <3>1. validation' = Append(validation, NextRow) /\ UNCHANGED normal
      BY <1>2, <2>3 DEF PublishFlow, Published
    <3>2. Rows(validation') = Rows(validation) \cup {NextRow}
      BY <2>1, <3>1, AppendRows DEF TypeOK
    <3>3. QED BY <1>2, <2>1, <2>3, <3>1, <3>2 DEF SidesKept, PublishFlow, Loadable
  <2>4. QED BY <1>2, <2>2, <2>3 DEF PublishFlow, TypeOK
<1>3. CASE PublishLost \/ TurnToValidation \/ ProduceDone \/ ProduceCrash
  <2>1. CASE PublishLost
    BY <2>1 DEF PublishLost, SidesKept, Loadable
  <2>2. CASE TurnToValidation
    BY <2>2 DEF TurnToValidation, SidesKept, Loadable
  <2>3. CASE ProduceDone \/ ProduceCrash
    BY <2>3 DEF ProduceDone, ProduceCrash, SidesKept, Loadable
  <2>4. QED BY <1>3, <2>1, <2>2, <2>3
<1>4. ASSUME NEW t \in Trainers, PollNormal(t) PROVE SidesKept(ratio)'
  <2>1. PICK n \in 0 .. Len(normal) : fit' = [fit EXCEPT ![t] = Batch(normal, n)]
    BY <1>4 DEF PollNormal
  <2>2. Rows(Batch(normal, n)) \subseteq Rows(normal)
    BY <2>1, BatchRows DEF TypeOK
  <2>3. QED BY <1>4, <2>1, <2>2 DEF TypeOK, SidesKept, PollNormal, Loadable
<1>5. ASSUME NEW t \in Trainers, PollValidation(t) PROVE SidesKept(ratio)'
  <2>1. PICK n \in 0 .. Len(validation) : held' = [held EXCEPT ![t] = Batch(validation, n)]
    BY <1>5 DEF PollValidation
  <2>2. Rows(Batch(validation, n)) \subseteq Rows(validation)
    BY <2>1, BatchRows DEF TypeOK
  <2>3. QED BY <1>5, <2>1, <2>2 DEF TypeOK, SidesKept, PollValidation, Loadable
<1>6. ASSUME NEW t \in Trainers, Train(t) PROVE SidesKept(ratio)'
  <2>1. /\ Trained(fit[t], held[t]).fit = Rows(fit[t])
        /\ Trained(fit[t], held[t]).held = Rows(held[t])
    BY DEF Trained
  <2>2. QED BY <1>6, <2>1 DEF TypeOK, SidesKept, Train, Loadable
<1>7. ASSUME NEW t \in Trainers, OpenFile(t) PROVE SidesKept(ratio)'
  BY <1>7 DEF OpenFile, SidesKept, Loadable
<1>8. ASSUME NEW t \in Trainers, WriteFile(t) PROVE SidesKept(ratio)'
  BY <1>8, ExitSides DEF WriteFile, Written, SidesKept
<1>9. ASSUME NEW t \in Trainers, TrainCrash(t) PROVE SidesKept(ratio)'
  BY <1>9, ExitSides DEF TrainCrash, SidesKept, Loadable
<1>10. CASE LateCopy
  <2>1. Rows(normal') = Rows(normal) /\ Rows(validation') = Rows(validation)
    BY <1>10, CopiedRow
  <2>2. QED BY <1>10, <2>1 DEF LateCopy, SidesKept, Loadable
<1>11. CASE UNCHANGED vars
  BY <1>11 DEF vars, SidesKept, Loadable
<1>12. QED
  BY <1>1, <1>2, <1>3, <1>4, <1>5, <1>6, <1>7, <1>8, <1>9, <1>10, <1>11 DEF Next, Producing, Training

(* The two sides have no row in common.                                        *)
LEMMA SidesApart ==
  ASSUME NEW ratio, SidesKept(ratio)
  PROVE  HeldOutUnseen
BY DEF SidesKept, HeldOutUnseen, FitSide, HeldSide

(* Held-out flows stay unseen by the fit, for every file, limit, number of     *)
(* trainers, loss, early poll and crash, as long as the ratio is the same.     *)
THEOREM NoLeak ==
  ASSUME NEW ratio, Ratios = {ratio}
  PROVE  Spec => []HeldOutUnseen
<1>1. Init => SidesKept(ratio)
  BY InitSides
<1>2. TypeOK /\ SidesKept(ratio) /\ [Next]_vars => SidesKept(ratio)'
  BY StepSides
<1>3. SidesKept(ratio) => HeldOutUnseen
  BY SidesApart
<1>4. QED BY <1>1, <1>2, <1>3, PipelineTypes, PTL DEF Spec

------------------------------------------------------------------------------
(* Whoever leaves the file torn is either still writing or was killed.         *)
THEOREM TornFile == Spec => []TornOnlyWhileWriting
<1>1. Init => TornOnlyWhileWriting
  BY PipelineAssumption DEF Init, TornOnlyWhileWriting
<1>2. TypeOK /\ TornOnlyWhileWriting /\ [Next]_vars => TornOnlyWhileWriting'
  <2> SUFFICES ASSUME TypeOK, TornOnlyWhileWriting, [Next]_vars
               PROVE  TornOnlyWhileWriting'
    OBVIOUS
  <2> USE DEF topicVars, producerVars, trainerVars, fileVars
  <2>1. spent.crashes \in Nat /\ Torn \notin Detector
    BY PipelineAssumption DEF TypeOK, Tally, Detector
  <2>2. CASE Producing
    <3>1. spent'.crashes = spent.crashes \/ spent'.crashes = spent.crashes + 1
      BY <2>2 DEF Producing, ProduceTrain, PublishFlow, PublishLost, LateCopy, TurnToValidation,
                  ProduceDone, ProduceCrash, TypeOK, Tally
    <3>2. UNCHANGED <<tpc, file>>
      BY <2>2 DEF Producing, ProduceTrain, PublishFlow, PublishLost, LateCopy, TurnToValidation,
                  ProduceDone, ProduceCrash
    <3>3. QED BY <2>1, <3>1, <3>2 DEF TornOnlyWhileWriting
  <2>3. ASSUME NEW t \in Trainers, PollNormal(t) \/ PollValidation(t) \/ Train(t)
        PROVE  TornOnlyWhileWriting'
    <3>1. tpc[t] # "writing" /\ file' = file
          /\ \A u \in Trainers \ {t} : tpc'[u] = tpc[u]
      BY <2>3 DEF PollNormal, PollValidation, Train, TypeOK
    <3>2. spent'.crashes = spent.crashes
      BY <2>3 DEF PollNormal, PollValidation, Train, TypeOK, Tally
    <3>3. QED BY <3>1, <3>2 DEF TornOnlyWhileWriting
  <2>4. ASSUME NEW t \in Trainers, OpenFile(t)
        PROVE  TornOnlyWhileWriting'
    BY <2>4 DEF OpenFile, TypeOK, TornOnlyWhileWriting
  <2>5. ASSUME NEW t \in Trainers, WriteFile(t)
        PROVE  TornOnlyWhileWriting'
    <3>1. file' = detector[t] /\ detector[t] \in Detector
      BY <2>5 DEF WriteFile, Written, TypeOK
    <3>2. file' # Torn
      BY <2>1, <3>1
    <3>3. QED BY <3>2 DEF TornOnlyWhileWriting
  <2>6. ASSUME NEW t \in Trainers, TrainCrash(t)
        PROVE  TornOnlyWhileWriting'
    <3>1. spent'.crashes = spent.crashes + 1
      BY <2>6 DEF TrainCrash, TypeOK, Tally
    <3>2. QED BY <2>1, <3>1 DEF TornOnlyWhileWriting
  <2>7. CASE UNCHANGED vars
    BY <2>7 DEF vars, TornOnlyWhileWriting
  <2>8. QED BY <2>2, <2>3, <2>4, <2>5, <2>6, <2>7 DEF Next, Training
<1>3. QED BY <1>1, <1>2, PipelineTypes, PTL DEF Spec

------------------------------------------------------------------------------
(* A sequence that begins another one.                                         *)
Begins(a, topic) == Len(a) <= Len(topic) /\ \A i \in 1 .. Len(a) : a[i] = topic[i]

Batches == Seq(DOMAIN File)

(* A detector made of the beginnings of both topics.                           *)
FromBeginnings(d) ==
  \E a, b \in Batches : Begins(a, normal) /\ Begins(b, validation) /\ d = Trained(a, b)

(* Whatever was polled, and whatever was trained on it, stems from the         *)
(* beginnings of the topics, which only grow.                                  *)
PolledFromStart ==
  /\ \A t \in Trainers : Begins(fit[t], normal) /\ Begins(held[t], validation)
  /\ \A d \in Compared : FromBeginnings(d)

(* A topic begins itself, and nothing begins every topic.                      *)
LEMMA BeginsItself ==
  ASSUME NEW topic \in Batches
  PROVE  Begins(topic, topic) /\ Begins(<<>>, topic)
BY DEF Begins, Batches

(* What began a topic begins it after a row was added.                         *)
LEMMA BeginsAppended ==
  ASSUME NEW a \in Batches, NEW topic \in Batches, NEW j \in DOMAIN File, Begins(a, topic)
  PROVE  Begins(a, Append(topic, j))
<1>1. /\ Len(Append(topic, j)) = Len(topic) + 1 /\ Len(a) \in Nat /\ Len(topic) \in Nat
      /\ \A i \in 1 .. Len(topic) : Append(topic, j)[i] = topic[i]
  BY AppendProperties DEF Batches
<1>2. QED BY <1>1 DEF Begins

(* A poll returns a beginning.                                                 *)
LEMMA BatchBegins ==
  ASSUME NEW topic \in Batches, NEW n \in 0 .. Len(topic)
  PROVE  Batch(topic, n) \in Batches /\ Begins(Batch(topic, n), topic)
<1>1. Batch(topic, n) \in Batches
  BY DEF Batch, Batches
<1>2. Len(Batch(topic, n)) = n /\ \A i \in 1 .. n : Batch(topic, n)[i] = topic[i]
  BY DEF Batch, Batches
<1>3. QED BY <1>1, <1>2 DEF Begins, Batches

(* Of two beginnings of a topic the shorter begins the longer, so it has no    *)
(* flow of a partition that the longer one lacks.                              *)
LEMMA LongerHasMore ==
  ASSUME NEW topic \in Batches, NEW a \in Batches, NEW c \in Batches, NEW k \in Keys,
         Begins(a, topic), Begins(c, topic), Len(a) <= Len(c)
  PROVE  /\ Group(a, k) \subseteq Group(c, k)
         /\ Cardinality(Group(a, k)) <= Cardinality(Group(c, k))
         /\ Cardinality(Group(a, k)) \in Nat /\ Cardinality(Group(c, k)) \in Nat
<1>1. DOMAIN a = 1 .. Len(a) /\ DOMAIN c = 1 .. Len(c) /\ Len(a) \in Nat /\ Len(c) \in Nat
  BY DEF Batches
<1>2. Group(a, k) \subseteq Group(c, k)
  BY <1>1 DEF Group, Begins
<1>3. IsFiniteSet(Group(c, k))
  <2>1. IsFiniteSet(1 .. Len(c)) /\ Group(c, k) \subseteq 1 .. Len(c)
    BY <1>1, FS_Interval DEF Group
  <2>2. QED BY <2>1, FS_Subset
<1>4. QED BY <1>2, <1>3, FS_Subset, FS_CardinalityType

(* A detector of more of both topics covers more.                              *)
LEMMA CoverageGrows ==
  ASSUME normal \in Batches, validation \in Batches,
         NEW a \in Batches, NEW b \in Batches, NEW c \in Batches, NEW d \in Batches,
         Begins(a, normal), Begins(c, normal), Begins(b, validation), Begins(d, validation),
         Len(a) <= Len(c), Len(b) <= Len(d)
  PROVE  Trained(a, b).covered \subseteq Trained(c, d).covered
<1> SUFFICES ASSUME NEW k \in Keys, Group(a, k) # {}, Fittable(a, b, k)
             PROVE  Group(c, k) # {} /\ Fittable(c, d, k)
  BY DEF Trained
<1>1. /\ Group(a, k) \subseteq Group(c, k)
      /\ Cardinality(Group(a, k)) <= Cardinality(Group(c, k))
      /\ Cardinality(Group(a, k)) \in Nat /\ Cardinality(Group(c, k)) \in Nat
  BY LongerHasMore
<1>2. Group(b, k) \subseteq Group(d, k)
  BY LongerHasMore
<1>3. QED BY <1>1, <1>2, PipelineAssumption DEF Fittable

(* At first topics and batches are empty.                                      *)
LEMMA InitBeginnings == Init => PolledFromStart
<1> SUFFICES ASSUME Init PROVE PolledFromStart
  OBVIOUS
<1>1. <<>> \in Batches
  BY DEF Batches
<1>2. Begins(<<>>, <<>>)
  BY <1>1, BeginsItself
<1>3. FromBeginnings(NewDetector)
  BY <1>1, <1>2 DEF Init, FromBeginnings, NewDetector
<1>4. \A d \in Compared : d = NewDetector
  BY DEF Init, Compared
<1>5. QED BY <1>1, <1>2, <1>3, <1>4 DEF Init, PolledFromStart

(* What stems from the beginnings still does when the topics grow or stay.     *)
LEMMA StillBeginnings ==
  ASSUME TypeOK, PolledFromStart, NEW j \in DOMAIN File,
         normal' \in {normal, Append(normal, j)},
         validation' \in {validation, Append(validation, j)}
  PROVE  /\ \A a \in Batches : Begins(a, normal) => Begins(a, normal')
         /\ \A b \in Batches : Begins(b, validation) => Begins(b, validation')
         /\ \A t \in Trainers : Begins(fit[t], normal') /\ Begins(held[t], validation')
         /\ \A d \in Compared : FromBeginnings(d)'
<1>1. \A a \in Batches : Begins(a, normal) => Begins(a, normal')
  BY BeginsAppended DEF TypeOK, Batches
<1>2. \A b \in Batches : Begins(b, validation) => Begins(b, validation')
  BY BeginsAppended DEF TypeOK, Batches
<1>3. \A t \in Trainers : Begins(fit[t], normal') /\ Begins(held[t], validation')
  BY <1>1, <1>2 DEF TypeOK, PolledFromStart, Batches
<1>4. \A d \in Compared : FromBeginnings(d)'
  BY <1>1, <1>2 DEF PolledFromStart, FromBeginnings
<1>5. QED BY <1>1, <1>2, <1>3, <1>4

(* A trainer that ends leaves an untrained detector in no process's memory.    *)
LEMMA NewFromBeginnings ==
  ASSUME TypeOK
  PROVE  FromBeginnings(NewDetector)
<1>1. <<>> \in Batches
  BY DEF Batches
<1>2. Begins(<<>>, normal) /\ Begins(<<>>, validation)
  BY BeginsItself DEF TypeOK, Batches
<1>3. QED BY <1>1, <1>2 DEF FromBeginnings, NewDetector

(* Every step polls from the start, trains on what was polled, or lengthens a   *)
(* topic.                                                                      *)
LEMMA StepBeginnings == TypeOK /\ PolledFromStart /\ [Next]_vars => PolledFromStart'
<1> SUFFICES ASSUME TypeOK, PolledFromStart, [Next]_vars PROVE PolledFromStart'
  OBVIOUS
<1> USE DEF topicVars, producerVars, trainerVars, fileVars
<1>1. CASE PublishFlow
  <2>1. NextRow \in DOMAIN File
    BY <1>1, NextRowLeft DEF PublishFlow, TypeOK
  <2>2. /\ normal' \in {normal, Append(normal, NextRow)}
        /\ validation' \in {validation, Append(validation, NextRow)}
    BY <1>1 DEF PublishFlow, Published
  <2>3. UNCHANGED <<fit, held, detector, file>> /\ Compared' = Compared
    BY <1>1 DEF PublishFlow, Compared
  <2>4. /\ \A t \in Trainers : Begins(fit[t], normal') /\ Begins(held[t], validation')
        /\ \A d \in Compared : FromBeginnings(d)'
    BY <2>1, <2>2, StillBeginnings
  <2>5. QED BY <2>3, <2>4 DEF PolledFromStart
<1>2. CASE \/ \E ratio \in Ratios, limit \in Limits : ProduceTrain(ratio, limit)
           \/ PublishLost \/ TurnToValidation \/ ProduceDone \/ ProduceCrash
           \/ UNCHANGED vars
  <2>1. UNCHANGED <<normal, validation, fit, held, detector, file>>
    BY <1>2 DEF ProduceTrain, PublishLost, TurnToValidation, ProduceDone, ProduceCrash, vars
  <2>2. Compared' = Compared /\ \A d : FromBeginnings(d)' <=> FromBeginnings(d)
    BY <2>1 DEF Compared, FromBeginnings
  <2>3. QED BY <2>1, <2>2 DEF PolledFromStart
<1>3. ASSUME NEW t \in Trainers, UNCHANGED <<normal, validation>>,
             \A u \in Trainers : \/ fit'[u] = fit[u]
                                 \/ \E n \in 0 .. Len(normal) : fit'[u] = Batch(normal, n)
                                 \/ fit'[u] = <<>>,
             \A u \in Trainers : \/ held'[u] = held[u]
                                 \/ \E n \in 0 .. Len(validation) : held'[u] = Batch(validation, n)
                                 \/ held'[u] = <<>>,
             Compared' \subseteq Compared \cup {NewDetector, Trained(fit[t], held[t])}
      PROVE  PolledFromStart'
  <2>1. normal \in Batches /\ validation \in Batches
    BY DEF TypeOK, Batches
  <2>2. ASSUME NEW u \in Trainers
        PROVE  Begins(fit'[u], normal) /\ Begins(held'[u], validation)
    BY <1>3, <2>1, BatchBegins, BeginsItself DEF PolledFromStart
  <2>3. FromBeginnings(NewDetector) /\ FromBeginnings(Trained(fit[t], held[t]))
    BY NewFromBeginnings DEF FromBeginnings, PolledFromStart, TypeOK, Batches
  <2>4. \A d \in Compared' : FromBeginnings(d)
    BY <1>3, <2>3 DEF PolledFromStart
  <2>5. \A d : FromBeginnings(d)' <=> FromBeginnings(d)
    BY <1>3 DEF FromBeginnings
  <2>6. QED BY <1>3, <2>2, <2>4, <2>5 DEF PolledFromStart
<1>4. ASSUME NEW t \in Trainers, PollNormal(t) \/ PollValidation(t) PROVE PolledFromStart'
  <2>1. Compared' = Compared /\ UNCHANGED <<normal, validation>>
    <3>1. UNCHANGED <<detector, file, normal, validation>>
      BY <1>4 DEF PollNormal, PollValidation
    <3>2. QED BY <3>1 DEF Compared
  <2>2. CASE PollNormal(t)
    <3>1. PICK n \in 0 .. Len(normal) : fit' = [fit EXCEPT ![t] = Batch(normal, n)]
      BY <2>2 DEF PollNormal
    <3>2. \A u \in Trainers : fit'[u] = fit[u] \/ fit'[u] = Batch(normal, n)
      BY <3>1 DEF TypeOK
    <3>3. held' = held
      BY <2>2 DEF PollNormal
    <3>4. QED BY <1>3, <2>1, <3>2, <3>3
  <2>3. CASE PollValidation(t)
    <3>1. PICK n \in 0 .. Len(validation) : held' = [held EXCEPT ![t] = Batch(validation, n)]
      BY <2>3 DEF PollValidation
    <3>2. \A u \in Trainers : held'[u] = held[u] \/ held'[u] = Batch(validation, n)
      BY <3>1 DEF TypeOK
    <3>3. fit' = fit
      BY <2>3 DEF PollValidation
    <3>4. QED BY <1>3, <2>1, <3>2, <3>3
  <2>4. QED BY <1>4, <2>2, <2>3
<1>5. ASSUME NEW t \in Trainers, Train(t) PROVE PolledFromStart'
  <2>1. Compared' \subseteq Compared \cup {Trained(fit[t], held[t])}
    BY <1>5 DEF Train, Compared, TypeOK
  <2>2. UNCHANGED <<normal, validation, fit, held>>
    BY <1>5 DEF Train
  <2>3. QED BY <1>3, <2>1, <2>2
<1>6. ASSUME NEW t \in Trainers, OpenFile(t) PROVE PolledFromStart'
  <2>1. Compared' \subseteq Compared
    BY <1>6 DEF OpenFile, Compared
  <2>2. UNCHANGED <<normal, validation, fit, held>>
    BY <1>6 DEF OpenFile
  <2>3. QED BY <1>3, <2>1, <2>2
<1>7. ASSUME NEW t \in Trainers, WriteFile(t) \/ TrainCrash(t) PROVE PolledFromStart'
  <2>1. Exit(t) /\ UNCHANGED <<normal, validation>>
    BY <1>7 DEF WriteFile, TrainCrash
  <2>2. file' = file \/ file' = detector[t]
    BY <1>7 DEF WriteFile, Written, TrainCrash
  <2>3. Compared' \subseteq Compared \cup {NewDetector}
    BY <2>1, <2>2 DEF Exit, Compared, TypeOK
  <2>4. \A u \in Trainers : /\ fit'[u] = fit[u] \/ fit'[u] = <<>>
                            /\ held'[u] = held[u] \/ held'[u] = <<>>
    BY <2>1 DEF Exit, TypeOK
  <2>5. QED BY <1>3, <2>1, <2>3, <2>4
<1>8. CASE LateCopy
  <2>1. PICK j \in DOMAIN File : /\ normal' \in {normal, Append(normal, j)}
                                 /\ validation' \in {validation, Append(validation, j)}
    BY <1>8, CopiedRow
  <2>2. UNCHANGED <<fit, held, detector, file>> /\ Compared' = Compared
    BY <1>8 DEF LateCopy, Compared
  <2>3. /\ \A t \in Trainers : Begins(fit[t], normal') /\ Begins(held[t], validation')
        /\ \A d \in Compared : FromBeginnings(d)'
    BY <2>1, StillBeginnings
  <2>4. QED BY <2>2, <2>3 DEF PolledFromStart
<1>9. QED BY <1>1, <1>2, <1>4, <1>5, <1>6, <1>7, <1>8 DEF Next, Producing, Training

(* More data never covers less, whatever the polls, crashes and lost sends.    *)
THEOREM CoverageMonotone == Spec => []MoreDataCoversMore
<1>1. ASSUME TypeOK, PolledFromStart PROVE MoreDataCoversMore
  <2> SUFFICES ASSUME NEW x \in Compared, NEW y \in Compared,
                      x.trainCount <= y.trainCount, x.validationCount <= y.validationCount
               PROVE  x.covered \subseteq y.covered
    BY DEF MoreDataCoversMore
  <2>1. PICK a \in Batches, b \in Batches :
          Begins(a, normal) /\ Begins(b, validation) /\ x = Trained(a, b)
    BY <1>1 DEF PolledFromStart, FromBeginnings
  <2>2. PICK c \in Batches, d \in Batches :
          Begins(c, normal) /\ Begins(d, validation) /\ y = Trained(c, d)
    BY <1>1 DEF PolledFromStart, FromBeginnings
  <2>3. Len(a) <= Len(c) /\ Len(b) <= Len(d)
    BY <2>1, <2>2 DEF Trained
  <2>4. normal \in Batches /\ validation \in Batches
    BY <1>1 DEF TypeOK, Batches
  <2>5. QED BY <2>1, <2>2, <2>3, <2>4, CoverageGrows
<1>2. QED BY <1>1, InitBeginnings, StepBeginnings, PipelineTypes, PTL DEF Spec
==============================================================================
