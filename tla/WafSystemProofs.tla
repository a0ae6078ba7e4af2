---------------------------- MODULE WafSystemProofs ---------------------------
(* That inspectors which read a file trainers truncate and rewrite do what     *)
(* they would do over a store that is always whole, and that restarts keep     *)
(* what is covered: for every number of trainers and inspectors, every file,   *)
(* and every bound.                                                            *)
EXTENDS WafSystem, FiniteSetTheorems, TLAPS

(* The offline half, with what is proved about it.                             *)
PP == INSTANCE TrainPipelineProofs WITH MaxSendFailures <- MaxLostFlows

------------------------------------------------------------------------------
(* Both instances of the offline half start alike.                             *)
LEMMA PipeInit == Pipe!Init => PP!Init
BY DEF Pipe!Init, PP!Init, Pipe!NewDetector, PP!NewDetector, Pipe!Spent, PP!Spent,
       Pipe!Trained, PP!Trained, Pipe!Rows, PP!Rows, Pipe!Fittable, PP!Fittable,
       Pipe!Group, PP!Group, Pipe!Cardinality, PP!Cardinality

(* ... its producers do the same ...                                           *)
LEMMA PipeProducing == Pipe!Producing => PP!Producing
BY DEF Pipe!Producing, PP!Producing, Pipe!ProduceTrain, PP!ProduceTrain,
       Pipe!PublishFlow, PP!PublishFlow, Pipe!PublishLost, PP!PublishLost,
       Pipe!LateCopy, PP!LateCopy, Pipe!Rows, PP!Rows,
       Pipe!TurnToValidation, PP!TurnToValidation, Pipe!ProduceDone, PP!ProduceDone,
       Pipe!ProduceCrash, PP!ProduceCrash, Pipe!NextRow, PP!NextRow,
       Pipe!Published, PP!Published, Pipe!NormalRows, PP!NormalRows,
       Pipe!ValidationRows, PP!ValidationRows, Pipe!BenignRows, PP!BenignRows,
       Pipe!IsValidation, PP!IsValidation, Pipe!BenignIndex, PP!BenignIndex,
       Pipe!Stride, PP!Stride, Pipe!Rounded, PP!Rounded,
       Pipe!Cardinality, PP!Cardinality,
       Pipe!topicVars, PP!topicVars, Pipe!producerVars, PP!producerVars,
       Pipe!trainerVars, PP!trainerVars, Pipe!fileVars, PP!fileVars

(* ... and so do its trainers.                                                 *)
LEMMA PipeTraining ==
  ASSUME NEW t \in Trainers, Pipe!Training(t)
  PROVE  PP!Training(t)
BY DEF Pipe!Training, PP!Training, Pipe!PollNormal, PP!PollNormal,
       Pipe!PollValidation, PP!PollValidation, Pipe!Train, PP!Train,
       Pipe!OpenFile, PP!OpenFile, Pipe!WriteFile, PP!WriteFile,
       Pipe!TrainCrash, PP!TrainCrash, Pipe!Exit, PP!Exit, Pipe!Batch, PP!Batch,
       Pipe!Written, PP!Written, Pipe!NewDetector, PP!NewDetector,
       Pipe!Trained, PP!Trained, Pipe!Rows, PP!Rows, Pipe!Fittable, PP!Fittable,
       Pipe!Group, PP!Group, Pipe!Cardinality, PP!Cardinality,
       Pipe!topicVars, PP!topicVars, Pipe!producerVars, PP!producerVars,
       Pipe!trainerVars, PP!trainerVars, Pipe!fileVars, PP!fileVars

(* Of the variables of the offline half, the inspectors change none.           *)
LEMMA PipeStep == [Next]_vars => [PP!Next]_PP!vars
<1> SUFFICES ASSUME [Next]_vars PROVE [PP!Next]_PP!vars
  OBVIOUS
<1> USE DEF pipeVars, PP!vars, PP!topicVars, PP!producerVars, PP!trainerVars, PP!fileVars
<1>1. CASE Producing
  BY <1>1, PipeProducing DEF Producing, PP!Next
<1>2. ASSUME NEW t \in Trainers, Training(t) PROVE [PP!Next]_PP!vars
  BY <1>2, PipeTraining DEF Training, PP!Next
<1>3. CASE Submit \/ Arrive
  BY <1>3 DEF Submit, Arrive
<1>4. ASSUME NEW p \in Inspectors, Start(p) \/ Serve(p) \/ Suffer(p)
      PROVE  [PP!Next]_PP!vars
  BY <1>4 DEF Start, Serve, Suffer
<1>5. CASE UNCHANGED vars
  BY <1>5 DEF vars
<1>6. QED BY <1>1, <1>2, <1>3, <1>4, <1>5 DEF Next

(* Nor does anything the inspectors do reach the offline half's invariants.    *)
LEMMA PipelineHolds == Spec => [](PP!TypeOK /\ PP!PolledFromStart)
<1>1. Init => PP!Init
  BY PipeInit DEF Init
<1>2. PP!Spec => []PP!TypeOK
  BY PP!PipelineTypes, SystemAssumption DEF Pipe!PipelineAssumption
<1>3. PP!Init => PP!PolledFromStart
  BY PP!InitBeginnings, SystemAssumption DEF Pipe!PipelineAssumption
<1>4. PP!TypeOK /\ PP!PolledFromStart /\ [PP!Next]_PP!vars => PP!PolledFromStart'
  BY PP!StepBeginnings, SystemAssumption DEF Pipe!PipelineAssumption
<1>5. QED BY <1>1, <1>2, <1>3, <1>4, PipeStep, PTL DEF Spec, PP!Spec

------------------------------------------------------------------------------
(* A set of rows has no more members than the file, one less without one.      *)
LEMMA RowCount ==
  ASSUME NEW S \in SUBSET DOMAIN File
  PROVE  /\ IsFiniteSet(S) /\ Cardinality(S) \in Nat /\ Cardinality(S) <= Len(File)
         /\ \A j \in S : Cardinality(S \ {j}) = Cardinality(S) - 1
<1>1. Len(File) \in Nat /\ DOMAIN File = 1 .. Len(File)
  BY SystemAssumption DEF Pipe!PipelineAssumption
<1>2. IsFiniteSet(1 .. Len(File)) /\ Cardinality(1 .. Len(File)) = Len(File)
  BY <1>1, FS_Interval
<1>3. IsFiniteSet(S) /\ Cardinality(S) <= Len(File)
  BY <1>1, <1>2, FS_Subset
<1>4. QED BY <1>3, FS_CardinalityType, FS_RemoveElement

(* What is left to publish are rows of the file.                               *)
LEMMA LeftRows ==
  ASSUME PP!TypeOK
  PROVE  /\ NormalLeft \in SUBSET DOMAIN File /\ ValidationLeft \in SUBSET DOMAIN File
         /\ Len(normal) \in Nat /\ Len(validation) \in Nat
         /\ spent.productions \in Nat /\ spent.failures \in Nat
BY DEF PP!TypeOK, PP!Tally, NormalLeft, ValidationLeft

(* Publishing moves a row from those that are left to the topic, a send that   *)
(* fails drops it.                                                             *)
LEMMA PublishBounded ==
  ASSUME PP!TypeOK, TopicsBounded, PP!PublishFlow \/ PP!PublishLost
  PROVE  /\ Len(normal') + Cardinality(NormalLeft')
              <= Len(normal) + Cardinality(NormalLeft)
         /\ Len(validation') + Cardinality(ValidationLeft')
              <= Len(validation) + Cardinality(ValidationLeft)
<1>1. PP!NextRow \in todo /\ todo' = todo \ {PP!NextRow} /\ stage' = stage /\ later' = later
  <2>1. todo # {} /\ todo \subseteq DOMAIN File
    BY DEF PP!PublishFlow, PP!PublishLost, PP!TypeOK
  <2>2. PP!NextRow \in todo
    BY <2>1, PP!NextRowLeft, SystemAssumption DEF Pipe!PipelineAssumption
  <2>3. QED BY <2>2 DEF PP!PublishFlow, PP!PublishLost
<1>2. PP!NextRow \in DOMAIN File
  BY <1>1 DEF PP!TypeOK
<1>3. /\ Cardinality(todo') = Cardinality(todo) - 1
      /\ Cardinality(todo) \in Nat /\ Cardinality(later) \in Nat
  BY <1>1, RowCount DEF PP!TypeOK
<1>4. /\ Len(Append(normal, PP!NextRow)) = Len(normal) + 1
      /\ Len(Append(validation, PP!NextRow)) = Len(validation) + 1
      /\ Len(normal) \in Nat /\ Len(validation) \in Nat
  BY <1>2 DEF PP!TypeOK
<1>5. Cardinality({}) = 0
  BY FS_EmptySet
<1>6. stage \in {"normal", "validation"}
  BY DEF PP!PublishFlow, PP!PublishLost, PP!TypeOK
<1>7. CASE stage = "normal"
  <2>1. normal' \in {normal, Append(normal, PP!NextRow)} /\ validation' = validation
    BY <1>7 DEF PP!PublishFlow, PP!PublishLost, PP!Published, PP!topicVars
  <2>2. NormalLeft = todo /\ NormalLeft' = todo' /\ ValidationLeft' = ValidationLeft
    BY <1>1, <1>7 DEF NormalLeft, ValidationLeft
  <2>3. ValidationLeft = later
    BY <1>7 DEF ValidationLeft
  <2>4. QED BY <1>3, <1>4, <2>1, <2>2, <2>3
<1>8. CASE stage = "validation"
  <2>1. validation' \in {validation, Append(validation, PP!NextRow)} /\ normal' = normal
    BY <1>8 DEF PP!PublishFlow, PP!PublishLost, PP!Published, PP!topicVars
  <2>2. ValidationLeft = todo /\ ValidationLeft' = todo' /\ NormalLeft' = NormalLeft
    BY <1>1, <1>8 DEF NormalLeft, ValidationLeft
  <2>3. NormalLeft = {}
    BY <1>8 DEF NormalLeft
  <2>4. QED BY <1>3, <1>4, <1>5, <2>1, <2>2, <2>3
<1>9. QED BY <1>6, <1>7, <1>8

(* A sum within a sum within a bound that does not shrink.                     *)
LEMMA SumTransitive ==
  ASSUME NEW a \in Nat, NEW b \in Nat, NEW c \in Nat, NEW d \in Nat,
         NEW room \in Nat, NEW e \in Nat, NEW f \in Nat,
         a + b <= c + d, c + d <= room + e, e <= f
  PROVE  a + b <= room + f
OBVIOUS

(* One more on either side of a bound.                                         *)
LEMMA SumStep ==
  ASSUME NEW a \in Nat, NEW b \in Nat, NEW c \in Nat, NEW room \in Nat, NEW f \in Nat,
         a + b <= room + f, c <= a + 1
  PROVE  c + b <= room + (f + 1)
OBVIOUS

(* A sum whose second part is replaced by one within the room that is added.   *)
LEMMA SumReplaced ==
  ASSUME NEW a \in Nat, NEW b \in Nat, NEW c \in Nat, NEW room \in Nat, NEW n \in Nat, NEW f \in Nat,
         a + b <= room + f, c <= n
  PROVE  a + c <= room + n + f
OBVIOUS

(* A late copy is one more row, and one more of the sends that went wrong.      *)
LEMMA CopyBounded ==
  ASSUME PP!TypeOK, TopicsBounded, PP!LateCopy
  PROVE  TopicsBounded'
<1>1. /\ Len(normal) \in Nat /\ Len(validation) \in Nat /\ spent.productions \in Nat
      /\ spent.failures \in Nat /\ Len(File) \in Nat /\ MaxLostFlows \in Nat
      /\ Cardinality(NormalLeft) \in Nat /\ Cardinality(ValidationLeft) \in Nat
  BY LeftRows, RowCount, SystemAssumption DEF Pipe!PipelineAssumption
<1>2. /\ spent.failures < MaxLostFlows
      /\ spent'.failures = spent.failures + 1 /\ spent'.productions = spent.productions
      /\ UNCHANGED <<stage, todo, later>>
  BY DEF PP!LateCopy, PP!producerVars, PP!TypeOK, PP!Tally
<1>3. PICK j \in DOMAIN File : \/ normal' = Append(normal, j) /\ validation' = validation
                               \/ validation' = Append(validation, j) /\ normal' = normal
  BY PP!CopiedRow, SystemAssumption DEF Pipe!PipelineAssumption
<1>4. Len(normal') <= Len(normal) + 1 /\ Len(validation') <= Len(validation) + 1
      /\ Len(normal') \in Nat /\ Len(validation') \in Nat
  BY <1>1, <1>3 DEF PP!TypeOK
<1>5. NormalLeft' = NormalLeft /\ ValidationLeft' = ValidationLeft
  BY <1>2 DEF NormalLeft, ValidationLeft
<1> DEFINE room == spent.productions * Len(File)
<1>6. room \in Nat
  BY <1>1
<1>7. /\ Len(normal) + Cardinality(NormalLeft) <= room + spent.failures
      /\ Len(validation) + Cardinality(ValidationLeft) <= room + spent.failures
      /\ spent.productions <= MaxProductions
  BY DEF TopicsBounded
<1> HIDE DEF room
<1>8. /\ Len(normal') + Cardinality(NormalLeft) <= room + (spent.failures + 1)
      /\ Len(validation') + Cardinality(ValidationLeft) <= room + (spent.failures + 1)
  <2>1. Len(normal') + Cardinality(NormalLeft) <= room + (spent.failures + 1)
    BY <1>1, <1>4, <1>6, <1>7, SumStep
  <2>2. Len(validation') + Cardinality(ValidationLeft) <= room + (spent.failures + 1)
    BY <1>1, <1>4, <1>6, <1>7, SumStep
  <2>3. QED BY <2>1, <2>2
<1>9. spent.failures + 1 <= MaxLostFlows
  BY <1>1, <1>2
<1>10. QED BY <1>2, <1>5, <1>7, <1>8, <1>9 DEF TopicsBounded, room

(* No step publishes more than the started producers read.                     *)
LEMMA StepBounded ==
  PP!TypeOK /\ TopicsBounded /\ [PP!Next]_PP!vars => TopicsBounded'
<1> SUFFICES ASSUME PP!TypeOK, TopicsBounded, [PP!Next]_PP!vars
             PROVE  TopicsBounded'
  OBVIOUS
<1> USE DEF PP!topicVars, PP!producerVars, PP!trainerVars, PP!fileVars
<1>1. /\ Len(File) \in Nat /\ spent.productions \in Nat
      /\ Len(normal) \in Nat /\ Len(validation) \in Nat
      /\ MaxProductions \in Nat /\ MaxLostFlows \in Nat /\ spent.failures \in Nat
      /\ spent \in PP!Tally
  BY LeftRows, SystemAssumption DEF Pipe!PipelineAssumption, PP!TypeOK
<1>2. /\ Cardinality(NormalLeft) \in Nat /\ Cardinality(ValidationLeft) \in Nat
      /\ Cardinality({}) = 0
  BY LeftRows, RowCount, FS_EmptySet
<1>3. ASSUME NEW ratio \in Ratios, NEW limit \in Limits, PP!ProduceTrain(ratio, limit)
      PROVE  TopicsBounded'
  <2>1. /\ NormalLeft' = todo' /\ ValidationLeft' = later'
        /\ todo' \in SUBSET DOMAIN File /\ later' \in SUBSET DOMAIN File
    BY <1>3 DEF PP!ProduceTrain, NormalLeft, ValidationLeft,
                PP!NormalRows, PP!ValidationRows, PP!BenignRows
  <2>2. /\ Cardinality(NormalLeft') \in Nat /\ Cardinality(NormalLeft') <= Len(File)
        /\ Cardinality(ValidationLeft') \in Nat /\ Cardinality(ValidationLeft') <= Len(File)
    BY <2>1, RowCount
  <2>3. /\ spent'.productions = spent.productions + 1
        /\ spent.productions < MaxProductions /\ spent'.failures = spent.failures
        /\ normal' = normal /\ validation' = validation
    BY <1>1, <1>3 DEF PP!ProduceTrain, PP!Tally
  <2>4. spent'.productions * Len(File) = spent.productions * Len(File) + Len(File)
    BY <1>1, <2>3
  <2>5. spent.productions * Len(File) \in Nat
    BY <1>1
  <2>6. spent'.productions <= MaxProductions
    BY <1>1, <2>3
  <2> HIDE DEF PP!topicVars, PP!producerVars, PP!trainerVars, PP!fileVars
  <2> DEFINE room == spent.productions * Len(File)
  <2>7. /\ Len(normal) + Cardinality(NormalLeft) <= room + spent.failures
        /\ Len(validation) + Cardinality(ValidationLeft) <= room + spent.failures
        /\ spent.failures <= MaxLostFlows
    BY DEF TopicsBounded
  <2>8. room \in Nat /\ spent'.productions * Len(File) = room + Len(File)
    BY <2>4, <2>5
  <2>9. /\ Len(normal) + Cardinality(NormalLeft') <= room + Len(File) + spent.failures
        /\ Len(validation) + Cardinality(ValidationLeft') <= room + Len(File) + spent.failures
    <3> DEFINE n == Len(normal)
               v == Len(validation)
               rows == Len(File)
               failed == spent.failures
               nLeft == Cardinality(NormalLeft)
               vLeft == Cardinality(ValidationLeft)
               nNew == Cardinality(NormalLeft')
               vNew == Cardinality(ValidationLeft')
    <3>1. /\ n \in Nat /\ v \in Nat /\ rows \in Nat /\ failed \in Nat /\ room \in Nat
          /\ nLeft \in Nat /\ vLeft \in Nat /\ nNew \in Nat /\ vNew \in Nat
      BY <1>1, <1>2, <2>2, <2>8
    <3>2. n + nLeft <= room + failed /\ v + vLeft <= room + failed /\ nNew <= rows /\ vNew <= rows
      BY <2>2, <2>7
    <3> HIDE DEF n, v, rows, failed, nLeft, vLeft, nNew, vNew, room
    <3>3. n + nNew <= room + rows + failed
      BY <3>1, <3>2, SumReplaced
    <3>4. v + vNew <= room + rows + failed
      BY <3>1, <3>2, SumReplaced
    <3>5. QED BY <3>3, <3>4 DEF n, v, rows, failed, nNew, vNew
  <2> HIDE DEF room
  <2>10. QED BY <2>3, <2>6, <2>7, <2>8, <2>9 DEF TopicsBounded
<1>4. CASE PP!PublishFlow \/ PP!PublishLost
  <2>1. /\ spent'.productions = spent.productions
        /\ spent'.failures \in {spent.failures, spent.failures + 1}
        /\ spent'.failures <= MaxLostFlows
    <3>1. CASE PP!PublishFlow
      BY <1>1, <3>1 DEF PP!PublishFlow, TopicsBounded
    <3>2. CASE PP!PublishLost
      BY <1>1, <3>2 DEF PP!PublishLost, PP!Tally
    <3>3. QED BY <1>4, <3>1, <3>2
  <2>2. PP!TypeOK'
    BY PP!StepTypes, SystemAssumption DEF Pipe!PipelineAssumption
  <2>3. /\ Len(normal') \in Nat /\ Len(validation') \in Nat
        /\ Cardinality(NormalLeft') \in Nat /\ Cardinality(ValidationLeft') \in Nat
    <3>1. \A S \in SUBSET DOMAIN File : Cardinality(S) \in Nat
      BY RowCount
    <3>2. /\ NormalLeft' \in SUBSET DOMAIN File /\ ValidationLeft' \in SUBSET DOMAIN File
          /\ Len(normal') \in Nat /\ Len(validation') \in Nat
      BY <2>2 DEF PP!TypeOK, NormalLeft, ValidationLeft
    <3>3. QED BY <3>1, <3>2
  <2>4. /\ Len(normal') + Cardinality(NormalLeft') <= Len(normal) + Cardinality(NormalLeft)
        /\ Len(validation') + Cardinality(ValidationLeft')
             <= Len(validation) + Cardinality(ValidationLeft)
    BY <1>4, PublishBounded
  <2>5. spent.productions * Len(File) \in Nat
    BY <1>1
  <2> DEFINE room == spent.productions * Len(File)
  <2>6. /\ Len(normal) + Cardinality(NormalLeft) <= room + spent.failures
        /\ Len(validation) + Cardinality(ValidationLeft) <= room + spent.failures
        /\ spent.productions <= MaxProductions
    BY DEF TopicsBounded
  <2>7. /\ Len(normal') + Cardinality(NormalLeft') <= room + spent'.failures
        /\ Len(validation') + Cardinality(ValidationLeft') <= room + spent'.failures
    <3>1. room \in Nat /\ spent'.failures \in Nat /\ spent.failures <= spent'.failures
      BY <1>1, <2>1, <2>5
    <3> DEFINE n == Len(normal)
               v == Len(validation)
               failed == spent.failures
               nLeft == Cardinality(NormalLeft)
               vLeft == Cardinality(ValidationLeft)
               nGrown == Len(normal')
               vGrown == Len(validation')
               nNew == Cardinality(NormalLeft')
               vNew == Cardinality(ValidationLeft')
               failedNow == spent'.failures
    <3>2. /\ n \in Nat /\ v \in Nat /\ failed \in Nat /\ nLeft \in Nat /\ vLeft \in Nat
          /\ nGrown \in Nat /\ vGrown \in Nat /\ nNew \in Nat /\ vNew \in Nat
          /\ failedNow \in Nat /\ failed <= failedNow /\ room \in Nat
      BY <1>1, <1>2, <2>3, <3>1
    <3>3. /\ nGrown + nNew <= n + nLeft /\ n + nLeft <= room + failed
          /\ vGrown + vNew <= v + vLeft /\ v + vLeft <= room + failed
      BY <2>4, <2>6
    <3> HIDE DEF n, v, failed, nLeft, vLeft, nGrown, vGrown, nNew, vNew, failedNow, room
    <3>4. nGrown + nNew <= room + failedNow
      BY <3>2, <3>3, SumTransitive
    <3>5. vGrown + vNew <= room + failedNow
      BY <3>2, <3>3, SumTransitive
    <3>6. QED BY <3>4, <3>5 DEF nGrown, vGrown, nNew, vNew, failedNow
  <2>8. QED BY <2>1, <2>6, <2>7 DEF TopicsBounded
<1>5. CASE PP!TurnToValidation \/ PP!ProduceDone \/ PP!ProduceCrash
  <2>1. /\ spent'.productions = spent.productions /\ spent'.failures = spent.failures
        /\ normal' = normal /\ validation' = validation
    BY <1>1, <1>5 DEF PP!TurnToValidation, PP!ProduceDone, PP!ProduceCrash, PP!Tally
  <2>2. NormalLeft' = {} /\ ValidationLeft' \in {{}, ValidationLeft}
    BY <1>5 DEF PP!TurnToValidation, PP!ProduceDone, PP!ProduceCrash, NormalLeft, ValidationLeft
  <2>3. /\ Cardinality(NormalLeft') = 0
        /\ Cardinality(ValidationLeft') \in {0, Cardinality(ValidationLeft)}
    BY <1>2, <2>2
  <2> DEFINE room == spent.productions * Len(File)
  <2>4. room \in Nat
    BY <1>1
  <2>5. /\ Len(normal) + Cardinality(NormalLeft) <= room + spent.failures
        /\ Len(validation) + Cardinality(ValidationLeft) <= room + spent.failures
        /\ spent.productions <= MaxProductions /\ spent.failures <= MaxLostFlows
    BY DEF TopicsBounded
  <2> HIDE DEF room
  <2>6. /\ Len(normal) + Cardinality(NormalLeft') <= room + spent.failures
        /\ Len(validation) + Cardinality(ValidationLeft') <= room + spent.failures
    BY <1>1, <1>2, <2>3, <2>4, <2>5
  <2>7. QED BY <2>1, <2>5, <2>6 DEF TopicsBounded, room
<1>6. ASSUME NEW t \in Trainers, PP!Training(t)
      PROVE  TopicsBounded'
  <2>1. spent'.productions = spent.productions /\ spent'.failures = spent.failures
    BY <1>1, <1>6 DEF PP!Training, PP!PollNormal, PP!PollValidation, PP!Train, PP!OpenFile,
                      PP!WriteFile, PP!TrainCrash, PP!Tally
  <2>2. UNCHANGED <<normal, validation, stage, todo, later>>
    BY <1>6 DEF PP!Training, PP!PollNormal, PP!PollValidation, PP!Train, PP!OpenFile,
                PP!WriteFile, PP!TrainCrash
  <2>3. NormalLeft' = NormalLeft /\ ValidationLeft' = ValidationLeft
    BY <2>2 DEF NormalLeft, ValidationLeft
  <2>4. QED BY <2>1, <2>2, <2>3 DEF TopicsBounded
<1>7. CASE UNCHANGED PP!vars
  BY <1>7 DEF PP!vars, TopicsBounded, NormalLeft, ValidationLeft
<1>8. QED BY <1>3, <1>4, <1>5, <1>6, <1>7, CopyBounded DEF PP!Next, PP!Producing

------------------------------------------------------------------------------
(* A larger factor makes no smaller product.                                   *)
LEMMA ProductGrows ==
  ASSUME NEW a \in Nat, NEW b \in Nat, NEW n \in Nat, a <= b
  PROVE  a * n \in Nat /\ a * n <= b * n
OBVIOUS

(* What a trainer has in memory has a threshold for each partition it covers:  *)
(* it was trained on no more flows than the topics ever hold.                  *)
LEMMA MemoryModel ==
  ASSUME PP!TypeOK, PP!PolledFromStart, TopicsBounded, NEW t \in Trainers
  PROVE  /\ \A k \in Keys : Threshold(detector[t], k) \in Thresholds
         /\ ModelOf(detector[t]) \in [Keys -> Thresholds \cup {NoModel}]
<1> DEFINE d == detector[t]
<1>1. d \in PP!Detector /\ d \in PP!Compared
  BY DEF PP!TypeOK, PP!Compared
<1>2. PICK a \in PP!Batches, b \in PP!Batches :
        PP!Begins(a, normal) /\ PP!Begins(b, validation) /\ d = PP!Trained(a, b)
  BY <1>1 DEF PP!PolledFromStart, PP!FromBeginnings
<1>3. /\ d.trainCount <= Len(normal) /\ d.validationCount <= Len(validation)
      /\ d.trainCount \in Nat /\ d.validationCount \in Nat
  BY <1>1, <1>2 DEF PP!Begins, PP!Trained, PP!Detector
<1>4. /\ Len(File) \in Nat /\ MaxProductions \in Nat /\ MaxLostFlows \in Nat
      /\ spent.failures \in Nat /\ Len(normal) \in Nat /\ Len(validation) \in Nat /\ spent.productions \in Nat
      /\ Cardinality(NormalLeft) \in Nat /\ Cardinality(ValidationLeft) \in Nat
  BY LeftRows, RowCount, SystemAssumption DEF Pipe!PipelineAssumption
<1>5. /\ spent.productions * Len(File) \in Nat
      /\ spent.productions * Len(File) <= MaxProductions * Len(File)
  BY <1>4, ProductGrows DEF TopicsBounded
<1>6. MaxProductions * Len(File) \in Nat
  BY <1>4, ProductGrows
<1>7. /\ d.trainCount <= MaxProductions * Len(File) + MaxLostFlows
      /\ d.validationCount <= MaxProductions * Len(File) + MaxLostFlows
  <2> DEFINE bound == MaxProductions * Len(File)
             published == spent.productions * Len(File)
  <2>1. published \in Nat /\ bound \in Nat /\ published <= bound
    BY <1>5, <1>6
  <2>2. /\ Len(normal) + Cardinality(NormalLeft) <= published + spent.failures
        /\ Len(validation) + Cardinality(ValidationLeft) <= published + spent.failures
        /\ spent.failures <= MaxLostFlows
    BY DEF TopicsBounded
  <2> HIDE DEF bound, published, d
  <2>3. d.trainCount <= bound + MaxLostFlows /\ d.validationCount <= bound + MaxLostFlows
    BY <1>3, <1>4, <2>1, <2>2
  <2>4. QED BY <2>3 DEF bound
<1> DEFINE counts == 0 .. (MaxProductions * Len(File) + MaxLostFlows)
<1>8. d.trainCount \in counts /\ d.validationCount \in counts
  BY <1>3, <1>4, <1>6, <1>7
<1> HIDE DEF counts
<1>9. d \in [covered : SUBSET Keys, fit : SUBSET (DOMAIN File), held : SUBSET (DOMAIN File),
             trainCount : counts, validationCount : counts]
  BY <1>1, <1>8 DEF PP!Detector
<1>10. \A k \in Keys : Threshold(d, k) \in Thresholds
  BY <1>9, SystemAssumption DEF counts
<1>11. QED BY <1>10 DEF ModelOf

(* How the steps of a trainer differ: only the last of a save writes a         *)
(* detector, only the first makes a training of its own.                       *)
LEMMA TrainerSteps ==
  ASSUME PP!TypeOK, NEW t \in Trainers, PP!Training(t)
  PROVE  \/ /\ UnderWay' = UnderWay \cup {t} /\ t \notin UnderWay
            /\ UNCHANGED <<file, saved>>
            /\ spent.trainings < MaxTrainings
            /\ spent'.trainings = spent.trainings + 1
         \/ /\ UnderWay' = UnderWay /\ saved' = saved /\ file' \in {file, Torn}
            /\ spent'.trainings = spent.trainings
         \/ /\ UnderWay' = UnderWay \ {t} /\ t \in UnderWay
            /\ \/ UNCHANGED <<file, saved>>
               \/ tpc[t] = "writing" /\ file' = detector[t] /\ saved' = detector[t]
            /\ spent'.trainings = spent.trainings
<1> USE DEF PP!topicVars, PP!producerVars, PP!trainerVars, PP!fileVars
<1>1. CASE PP!PollNormal(t)
  <2>1. UnderWay' = UnderWay \cup {t} /\ t \notin UnderWay
    BY <1>1 DEF PP!PollNormal, PP!TypeOK, UnderWay
  <2>2. spent.trainings < MaxTrainings /\ spent'.trainings = spent.trainings + 1
    BY <1>1 DEF PP!PollNormal, PP!TypeOK, PP!Tally
  <2>3. QED BY <1>1, <2>1, <2>2 DEF PP!PollNormal
<1>2. CASE PP!PollValidation(t) \/ PP!Train(t) \/ PP!OpenFile(t)
  <2>1. UnderWay' = UnderWay
    BY <1>2 DEF PP!PollValidation, PP!Train, PP!OpenFile, PP!TypeOK, UnderWay
  <2>2. spent'.trainings = spent.trainings
    BY <1>2 DEF PP!PollValidation, PP!Train, PP!OpenFile, PP!TypeOK, PP!Tally
  <2>3. saved' = saved /\ file' \in {file, Torn}
    BY <1>2 DEF PP!PollValidation, PP!Train, PP!OpenFile
  <2>4. QED BY <2>1, <2>2, <2>3
<1>3. CASE PP!WriteFile(t) \/ PP!TrainCrash(t)
  <2>1. UnderWay' = UnderWay \ {t} /\ t \in UnderWay
    BY <1>3 DEF PP!WriteFile, PP!TrainCrash, PP!Exit, PP!TypeOK, UnderWay
  <2>2. spent'.trainings = spent.trainings
    BY <1>3 DEF PP!WriteFile, PP!TrainCrash, PP!TypeOK, PP!Tally
  <2>3. \/ UNCHANGED <<file, saved>>
        \/ tpc[t] = "writing" /\ file' = detector[t] /\ saved' = detector[t]
    BY <1>3 DEF PP!WriteFile, PP!Written, PP!TrainCrash
  <2>4. QED BY <2>1, <2>2, <2>3
<1>4. QED BY <1>1, <1>2, <1>3 DEF PP!Training

(* What ties the model store of the inspectors to the file.                    *)
StoreInv == StoreIsSaved /\ TopicsBounded /\ TrainingsPaid

(* At first both hold the detector nobody has trained yet.                     *)
LEMMA InitStore == Init => StoreInv
<1> SUFFICES ASSUME Init PROVE StoreInv
  OBVIOUS
<1>1. PP!Init
  BY PipeInit DEF Init
<1>2. Cardinality({}) = 0 /\ IsFiniteSet({})
  BY FS_EmptySet
<1>3. StoreIsSaved
  <2>1. ModelOf(NoFile) = [k \in Keys |-> NoModel]
    BY DEF ModelOf
  <2>2. store = ModelOf(NoFile) /\ loaded = [p \in Inspectors |-> ModelOf(NoFile)]
    BY DEF Init
  <2>3. saved = NoFile /\ file = NoFile
    BY <1>1 DEF PP!Init
  <2>4. QED BY <2>1, <2>2, <2>3 DEF StoreIsSaved, Pipe!Loadable
<1>4. TopicsBounded
  <2>1. /\ Len(normal) = 0 /\ Len(validation) = 0
        /\ spent.productions = 0 /\ spent.failures = 0
        /\ NormalLeft = {} /\ ValidationLeft = {}
    BY <1>1 DEF PP!Init, PP!Spent, NormalLeft, ValidationLeft
  <2>2. Len(File) \in Nat /\ MaxProductions \in Nat /\ MaxLostFlows \in Nat /\ 0 * Len(File) = 0
    BY SystemAssumption DEF Pipe!PipelineAssumption
  <2>3. QED BY <1>2, <2>1, <2>2 DEF TopicsBounded
<1>5. TrainingsPaid
  <2>1. UnderWay = {} /\ spent.trainings = 0 /\ retrains = 0
    BY <1>1 DEF PP!Init, PP!Spent, UnderWay, Init
  <2>2. QED BY <1>2, <2>1, SystemAssumption DEF TrainingsPaid
<1>6. QED BY <1>3, <1>4, <1>5 DEF StoreInv

(* Only trainers touch what this is about.                                     *)
LEMMA OthersKeepStore ==
  ASSUME [Next]_vars, ~ \E t \in Trainers : Training(t), PP!TypeOK
  PROVE  /\ UNCHANGED <<tpc, fit, held, detector, file, saved, store, retrains>>
         /\ spent'.trainings = spent.trainings
<1>1. CASE Producing
  <2>1. PP!Producing
    BY <1>1, PipeProducing DEF Producing
  <2>2. /\ UNCHANGED <<tpc, fit, held, detector, file, saved>>
        /\ spent'.trainings = spent.trainings
    BY <2>1 DEF PP!Producing, PP!ProduceTrain, PP!PublishFlow, PP!PublishLost,
                PP!LateCopy, PP!TurnToValidation, PP!ProduceDone, PP!ProduceCrash,
                PP!trainerVars, PP!fileVars, PP!TypeOK, PP!Tally
  <2>3. QED BY <1>1, <2>2 DEF Producing, modelVars
<1>2. CASE Submit \/ Arrive
  BY <1>2 DEF Submit, Arrive, pipeVars, modelVars
<1>3. ASSUME NEW p \in Inspectors, Start(p) \/ Serve(p) \/ Suffer(p)
      PROVE  UNCHANGED <<tpc, fit, held, detector, file, saved, store, retrains, spent>>
  BY <1>3 DEF Start, Serve, Suffer, pipeVars, modelVars
<1>4. CASE UNCHANGED vars
  BY <1>4 DEF vars, pipeVars, modelVars
<1>5. QED BY <1>1, <1>2, <1>3, <1>4 DEF Next

(* An inspector that starts loads what the store holds; nobody else loads.     *)
LEMMA LoadedSteps ==
  ASSUME StoreIsSaved, [Next]_vars
  PROVE  \/ loaded' = loaded
         \/ \E p \in Inspectors : loaded' = [loaded EXCEPT ![p] = store]
<1>1. CASE Producing \/ Submit \/ Arrive \/ (\E t \in Trainers : Training(t)) \/ UNCHANGED vars
  BY <1>1 DEF Producing, Submit, Arrive, Training, modelVars, vars
<1>2. ASSUME NEW p \in Inspectors, Serve(p) \/ Suffer(p)
      PROVE  loaded' = loaded
  BY <1>2 DEF Serve, Suffer, modelVars
<1>3. ASSUME NEW p \in Inspectors, Start(p)
      PROVE  loaded' = [loaded EXCEPT ![p] = store]
  BY <1>3 DEF Start, CanLoad, StoreIsSaved
<1>4. QED BY <1>1, <1>2, <1>3 DEF Next

(* Every step keeps the store in agreement with the file.                      *)
LEMMA StepStore ==
  PP!TypeOK /\ PP!PolledFromStart /\ StoreInv /\ [Next]_vars => StoreInv'
<1> SUFFICES ASSUME PP!TypeOK, PP!PolledFromStart, StoreInv, [Next]_vars
             PROVE  StoreInv'
  OBVIOUS
<1> USE DEF StoreInv
<1>1. TopicsBounded'
  BY PipeStep, StepBounded
<1>2. /\ spent.trainings \in Nat /\ MaxTrainings \in Nat
      /\ IsFiniteSet(UnderWay) /\ Cardinality(UnderWay) \in Nat
  BY FS_CardinalityType, SystemAssumption DEF PP!TypeOK, PP!Tally, TrainingsPaid
<1>3. loaded' \in [Inspectors -> [Keys -> Thresholds \cup {NoModel}]]
  BY LoadedSteps DEF StoreIsSaved
<1>4. ASSUME NEW t \in Trainers, Training(t)
      PROVE  StoreIsSaved' /\ TrainingsPaid'
  <2>1. PP!Training(t)
    BY <1>4, PipeTraining DEF Training
  <2>2. store' = ModelOf(saved') /\ retrains' = IF store' = store THEN retrains ELSE retrains + 1
    BY <1>4 DEF Training
  <2>3. ModelOf(detector[t]) \in [Keys -> Thresholds \cup {NoModel}]
    BY MemoryModel
  <2>4. saved' = saved => store' = store
    BY <2>2 DEF StoreIsSaved
  <2>5. StoreIsSaved'
    <3>1. ModelOf(saved)' = ModelOf(saved')
      BY DEF ModelOf
    <3>2. store' \in [Keys -> Thresholds \cup {NoModel}]
      BY <2>1, <2>2, <2>3, <2>4, TrainerSteps DEF StoreIsSaved
    <3>3. Pipe!Loadable' => file' = saved'
      BY <2>1, TrainerSteps DEF StoreIsSaved, Pipe!Loadable
    <3>4. QED BY <1>3, <2>2, <3>1, <3>2, <3>3 DEF StoreIsSaved
  <2>6. ASSUME NEW u \in Trainers
        PROVE  /\ IsFiniteSet(UnderWay \cup {u}) /\ IsFiniteSet(UnderWay \ {u})
               /\ u \notin UnderWay => Cardinality(UnderWay \cup {u}) = Cardinality(UnderWay) + 1
               /\ u \in UnderWay => Cardinality(UnderWay \ {u}) = Cardinality(UnderWay) - 1
    BY <1>2, FS_AddElement, FS_RemoveElement
  <2>7. TrainingsPaid'
    <3>1. /\ retrains \in Nat /\ retrains' \in {retrains, retrains + 1}
          /\ saved' = saved => retrains' = retrains
          /\ retrains + Cardinality(UnderWay) <= spent.trainings
          /\ spent.trainings <= MaxTrainings
      BY <2>2, <2>4 DEF TrainingsPaid
    <3>2. CASE /\ UnderWay' = UnderWay \cup {t} /\ t \notin UnderWay
               /\ UNCHANGED <<file, saved>>
               /\ spent.trainings < MaxTrainings
               /\ spent'.trainings = spent.trainings + 1
      <4>1. IsFiniteSet(UnderWay') /\ Cardinality(UnderWay') = Cardinality(UnderWay) + 1
        BY <2>6, <3>2
      <4>2. QED BY <1>2, <3>1, <3>2, <4>1 DEF TrainingsPaid
    <3>3. CASE /\ UnderWay' = UnderWay /\ saved' = saved
               /\ spent'.trainings = spent.trainings
      BY <1>2, <3>1, <3>3 DEF TrainingsPaid
    <3>4. CASE /\ UnderWay' = UnderWay \ {t} /\ t \in UnderWay
               /\ spent'.trainings = spent.trainings
      <4>1. IsFiniteSet(UnderWay') /\ Cardinality(UnderWay') = Cardinality(UnderWay) - 1
        BY <2>6, <3>4
      <4>2. QED BY <1>2, <3>1, <3>4, <4>1 DEF TrainingsPaid
    <3>5. QED BY <2>1, <3>2, <3>3, <3>4, TrainerSteps
  <2>8. QED BY <2>5, <2>7
<1>5. CASE ~ \E t \in Trainers : Training(t)
  <2>1. /\ UNCHANGED <<tpc, file, saved, store, retrains>>
        /\ spent'.trainings = spent.trainings
    BY <1>5, OthersKeepStore
  <2>2. UnderWay' = UnderWay /\ ModelOf(saved)' = ModelOf(saved)
    BY <2>1 DEF UnderWay, ModelOf
  <2>3. StoreIsSaved' /\ TrainingsPaid'
    BY <1>3, <2>1, <2>2 DEF StoreIsSaved, TrainingsPaid, Pipe!Loadable
  <2>4. QED BY <1>1, <2>3
<1>6. QED BY <1>1, <1>4, <1>5

(* The store agrees with the file in every state.                              *)
LEMMA StoreHolds == Spec => []StoreInv
BY InitStore, StepStore, PipelineHolds, PTL DEF Spec

------------------------------------------------------------------------------
(* The inspectors start with the detector nobody has trained yet.              *)
LEMMA WireInit == Init => Wire!Init
<1> SUFFICES ASSUME Init PROVE Wire!Init
  OBVIOUS
<1>1. store \in [Keys -> Thresholds \cup {NoModel}]
  BY InitStore DEF StoreInv, StoreIsSaved
<1>2. loaded \in [Inspectors -> {store}]
  BY DEF Init
<1>3. QED BY <1>1, <1>2 DEF Init, Wire!Init

(* A trainer's step is a save that replaces the model, or nothing at all.      *)
LEMMA WireTraining ==
  ASSUME PP!TypeOK, StoreInv, StoreInv', NEW t \in Trainers, Training(t)
  PROVE  [Wire!Next]_Wire!vars
<1> USE DEF Wire!vars, Wire!topicVars, Wire!groupVars, Wire!procVars, Wire!boundVars
<1>1. /\ store' = ModelOf(saved')
      /\ retrains' = IF store' = store THEN retrains ELSE retrains + 1
      /\ UNCHANGED <<requests, verdicts, lost, unacked, committed, owner, pc, pos, buffered,
                     disruptions, resends, loaded>>
  BY DEF Training, wireVars
<1>2. CASE store' = store
  BY <1>1, <1>2
<1>3. CASE store' # store
  <2>1. saved' # saved
    BY <1>1, <1>3 DEF StoreInv, StoreIsSaved
  <2>2. t \in UnderWay
    BY <2>1, PipeTraining, TrainerSteps DEF Training
  <2>3. /\ retrains \in Nat /\ spent.trainings \in Nat /\ MaxTrainings \in Nat
        /\ IsFiniteSet(UnderWay)
    BY SystemAssumption DEF StoreInv, TrainingsPaid, PP!TypeOK, PP!Tally
  <2>4. Cardinality(UnderWay) \in Nat /\ Cardinality(UnderWay) # 0
    BY <2>2, <2>3, FS_CardinalityType, FS_EmptySet
  <2>5. retrains < MaxTrainings
    BY <2>3, <2>4 DEF StoreInv, TrainingsPaid
  <2>6. store' \in [Keys -> Thresholds \cup {NoModel}] \ {store}
    BY <1>3 DEF StoreInv, StoreIsSaved
  <2>7. Wire!Retrain
    BY <1>1, <1>3, <2>5, <2>6 DEF Wire!Retrain
  <2>8. QED BY <2>7 DEF Wire!Next
<1>4. QED BY <1>2, <1>3

(* A start that finds a file it can load reads what the store holds.           *)
LEMMA WireStart ==
  ASSUME StoreInv, NEW p \in Inspectors, Start(p)
  PROVE  Wire!Start(p)
<1>1. ModelOf(file) = store /\ store \in [Keys -> Thresholds \cup {NoModel}]
  BY DEF Start, CanLoad, StoreInv, StoreIsSaved
<1>2. /\ pc[p] = "down"
      /\ pc' = [pc EXCEPT ![p] = "polling"]
      /\ loaded' = [loaded EXCEPT ![p] = store]
      /\ pos' = [pos EXCEPT ![p] = 0]
      /\ buffered' = [buffered EXCEPT ![p] = 0]
      /\ UNCHANGED <<requests, verdicts, lost, unacked, committed, owner, disruptions, resends,
                     store, retrains>>
  BY <1>1 DEF Start
<1>3. QED BY <1>1, <1>2 DEF Wire!Start, Wire!ModelRead, Wire!topicVars, Wire!groupVars,
                            Wire!boundVars

(* Each step of the system is a step of the inspectors, or none.               *)
LEMMA WireStep ==
  PP!TypeOK /\ StoreInv /\ StoreInv' /\ [Next]_vars => [Wire!Next]_Wire!vars
<1> SUFFICES ASSUME PP!TypeOK, StoreInv, StoreInv', [Next]_vars
             PROVE  [Wire!Next]_Wire!vars
  OBVIOUS
<1>1. CASE Producing
  BY <1>1 DEF Producing, wireVars, modelVars, Wire!vars, Wire!topicVars, Wire!groupVars,
              Wire!procVars, Wire!boundVars
<1>2. ASSUME NEW t \in Trainers, Training(t) PROVE [Wire!Next]_Wire!vars
  BY <1>2, WireTraining
<1>3. CASE Submit \/ Arrive
  BY <1>3 DEF Submit, Arrive, Wire!Next
<1>4. ASSUME NEW p \in Inspectors, Start(p) PROVE [Wire!Next]_Wire!vars
  BY <1>4, WireStart DEF Wire!Next, Wire!Step
<1>5. ASSUME NEW p \in Inspectors, Serve(p) \/ Suffer(p) PROVE [Wire!Next]_Wire!vars
  BY <1>5 DEF Serve, Suffer, Wire!Next, Wire!Step
<1>6. CASE UNCHANGED vars
  BY <1>6 DEF vars, wireVars, modelVars, Wire!vars, Wire!topicVars, Wire!groupVars,
              Wire!procVars, Wire!boundVars
<1>7. QED BY <1>1, <1>2, <1>3, <1>4, <1>5, <1>6 DEF Next

(* Inspectors over a file that trainers truncate and rewrite do what they      *)
(* would do over a store that always holds the last whole save, whoever trains *)
(* at once, and whoever is killed.                                             *)
THEOREM FileIsAStore == Spec => WireSpec
<1>1. Init => Wire!Init
  BY WireInit
<1>2. PP!TypeOK /\ StoreInv /\ StoreInv' /\ [Next]_vars => [Wire!Next]_Wire!vars
  BY WireStep
<1>3. QED BY <1>1, <1>2, StoreHolds, PipelineHolds, PTL DEF Spec, WireSpec, Wire!Spec

------------------------------------------------------------------------------
(* Both topics only grow, and what stems from their beginnings still does.     *)
LEMMA TopicsGrow ==
  ASSUME PP!TypeOK, PP!PolledFromStart, [PP!Next]_PP!vars
  PROVE  /\ Len(normal) <= Len(normal') /\ Len(validation) <= Len(validation')
         /\ \A d : PP!FromBeginnings(d) => PP!FromBeginnings(d)'
<1> USE DEF PP!topicVars, PP!producerVars, PP!trainerVars, PP!fileVars
<1>1. Len(normal) \in Nat /\ Len(validation) \in Nat
  BY LeftRows
<1>2. CASE PP!PublishFlow
  <2>1. todo # {} /\ todo \subseteq DOMAIN File
    BY <1>2 DEF PP!PublishFlow, PP!TypeOK
  <2>2. PP!NextRow \in DOMAIN File
    BY <2>1, PP!NextRowLeft, SystemAssumption DEF Pipe!PipelineAssumption
  <2>3. /\ normal' \in {normal, Append(normal, PP!NextRow)}
        /\ validation' \in {validation, Append(validation, PP!NextRow)}
    BY <1>2 DEF PP!PublishFlow, PP!Published
  <2>4. /\ \A a \in PP!Batches : PP!Begins(a, normal) => PP!Begins(a, normal')
        /\ \A b \in PP!Batches : PP!Begins(b, validation) => PP!Begins(b, validation')
    BY <2>2, <2>3, PP!StillBeginnings, SystemAssumption DEF Pipe!PipelineAssumption
  <2>5. \A d : PP!FromBeginnings(d) => PP!FromBeginnings(d)'
    BY <2>4 DEF PP!FromBeginnings
  <2>6. /\ Len(Append(normal, PP!NextRow)) = Len(normal) + 1
        /\ Len(Append(validation, PP!NextRow)) = Len(validation) + 1
    BY <2>2 DEF PP!TypeOK
  <2>7. QED BY <1>1, <2>3, <2>5, <2>6
<1>3. CASE PP!LateCopy
  <2>1. PICK j \in DOMAIN File : \/ normal' = Append(normal, j) /\ validation' = validation
                                 \/ validation' = Append(validation, j) /\ normal' = normal
    BY <1>3, PP!CopiedRow, SystemAssumption DEF Pipe!PipelineAssumption
  <2>2. /\ normal' \in {normal, Append(normal, j)}
        /\ validation' \in {validation, Append(validation, j)}
    BY <2>1
  <2>3. /\ \A a \in PP!Batches : PP!Begins(a, normal) => PP!Begins(a, normal')
        /\ \A b \in PP!Batches : PP!Begins(b, validation) => PP!Begins(b, validation')
    BY <2>2, PP!StillBeginnings, SystemAssumption DEF Pipe!PipelineAssumption
  <2>4. \A d : PP!FromBeginnings(d) => PP!FromBeginnings(d)'
    BY <2>3 DEF PP!FromBeginnings
  <2>5. /\ Len(Append(normal, j)) = Len(normal) + 1
        /\ Len(Append(validation, j)) = Len(validation) + 1
    BY DEF PP!TypeOK
  <2>6. QED BY <1>1, <2>2, <2>4, <2>5
<1>4. CASE ~ PP!PublishFlow /\ ~ PP!LateCopy
  <2>1. normal' = normal /\ validation' = validation
    BY <1>4 DEF PP!Next, PP!Producing, PP!ProduceTrain, PP!PublishLost, PP!TurnToValidation,
                PP!ProduceDone, PP!ProduceCrash, PP!Training, PP!PollNormal,
                PP!PollValidation, PP!Train, PP!OpenFile, PP!WriteFile, PP!TrainCrash, PP!vars
  <2>2. \A d : PP!FromBeginnings(d) => PP!FromBeginnings(d)'
    BY <2>1 DEF PP!FromBeginnings
  <2>3. QED BY <1>1, <2>1, <2>2
<1>5. QED BY <1>2, <1>3, <1>4

(* A detector protects what it covers.                                         *)
LEMMA ProtectedCovered ==
  ASSUME NEW d, d \notin {NoFile, Torn}
  PROVE  /\ Protected(ModelOf(d)) \subseteq d.covered
         /\ (\A k \in Keys : Threshold(d, k) \in Thresholds) =>
              d.covered \cap Keys \subseteq Protected(ModelOf(d))
<1>1. \A k \in Keys : ModelOf(d)[k] = IF k \in d.covered THEN Threshold(d, k) ELSE NoModel
  BY DEF ModelOf
<1>2. NoModel \notin Thresholds
  BY SystemAssumption DEF Wire!NoModelAssumption
<1>3. QED BY <1>1, <1>2 DEF Protected

(* Without a detector nothing is protected.                                    *)
LEMMA NothingProtected == Protected(ModelOf(NoFile)) = {}
BY DEF Protected, ModelOf

(* What the argument about coverage rests on.                                  *)
CoverageInv == TrainsOnMore /\ (saved # NoFile => PP!FromBeginnings(saved))

(* Nothing was saved yet, so nothing was covered that could be lost.           *)
LEMMA InitCoverage == Init => CoverageInv
<1> SUFFICES ASSUME Init PROVE CoverageInv
  OBVIOUS
<1>1. PP!Init
  BY PipeInit DEF Init
<1>2. saved = NoFile /\ \A t \in Trainers : tpc[t] = "idle"
  BY <1>1 DEF PP!Init
<1>3. \A p \in Inspectors : loaded[p] = store
  BY DEF Init
<1>4. QED BY <1>2, <1>3 DEF CoverageInv, TrainsOnMore

(* A poll that may not give up early returns the whole topic.                  *)
LEMMA WholeTopic ==
  ASSUME NEW topic \in Seq(DOMAIN File), NEW n \in 0 .. Len(topic), PP!TypeOK,
         MaxTimeouts = 0, n < Len(topic) => spent.timeouts < MaxTimeouts
  PROVE  Len(PP!Batch(topic, n)) = Len(topic)
<1>1. n = Len(topic)
  BY DEF PP!TypeOK, PP!Tally
<1>2. QED BY <1>1 DEF PP!Batch

(* The detector a lone trainer saves covers what the last one saved does.      *)
LEMMA SaveKeepsCoverage ==
  ASSUME PP!TypeOK, PP!PolledFromStart, StoreInv, CoverageInv,
         NEW t \in Trainers, tpc[t] = "writing"
  PROVE  /\ Protected(store) \subseteq Protected(ModelOf(detector[t]))
         /\ detector[t].trainCount = Len(fit[t]) /\ detector[t].trainCount <= Len(normal)
         /\ detector[t].validationCount = Len(held[t])
         /\ detector[t].validationCount <= Len(validation)
         /\ PP!FromBeginnings(detector[t])
<1>1. detector[t] = PP!Trained(fit[t], held[t])
  <2>1. \A a, b : Pipe!Trained(a, b) = PP!Trained(a, b)
    BY DEF Pipe!Trained, PP!Trained, Pipe!Rows, PP!Rows, Pipe!Fittable, PP!Fittable,
           Pipe!Group, PP!Group, Pipe!Cardinality, PP!Cardinality
  <2>2. detector[t] = Pipe!Trained(fit[t], held[t])
    BY DEF CoverageInv, TrainsOnMore
  <2>3. QED BY <2>1, <2>2
<1>2. /\ detector[t].trainCount = Len(fit[t]) /\ detector[t].validationCount = Len(held[t])
      /\ PP!Begins(fit[t], normal) /\ PP!Begins(held[t], validation)
      /\ fit[t] \in PP!Batches /\ held[t] \in PP!Batches
      /\ normal \in PP!Batches /\ validation \in PP!Batches
  BY <1>1 DEF PP!Trained, PP!PolledFromStart, PP!TypeOK, PP!Batches
<1>3. detector[t].trainCount <= Len(normal) /\ detector[t].validationCount <= Len(validation)
  BY <1>2 DEF PP!Begins
<1>4. PP!FromBeginnings(detector[t])
  BY <1>1, <1>2 DEF PP!FromBeginnings
<1>5. CASE saved = NoFile
  <2>1. Protected(store) = {}
    BY <1>5, NothingProtected DEF StoreInv, StoreIsSaved
  <2>2. QED BY <1>2, <1>3, <1>4, <2>1
<1>6. CASE saved # NoFile
  <2>1. PICK a \in PP!Batches, b \in PP!Batches :
          PP!Begins(a, normal) /\ PP!Begins(b, validation) /\ saved = PP!Trained(a, b)
    BY <1>6 DEF CoverageInv, PP!FromBeginnings
  <2>2. saved.trainCount <= Len(fit[t]) /\ saved.validationCount <= Len(held[t])
    BY <1>6 DEF CoverageInv, TrainsOnMore
  <2>3. Len(a) <= Len(fit[t]) /\ Len(b) <= Len(held[t])
    BY <2>1, <2>2 DEF PP!Trained
  <2>4. saved.covered \subseteq detector[t].covered
    BY <1>1, <1>2, <2>1, <2>3, PP!CoverageGrows, SystemAssumption DEF Pipe!PipelineAssumption
  <2>5. /\ saved \in PP!Detector /\ detector[t] \in PP!Detector
        /\ PP!Detector \cap {NoFile, Torn} = {}
    BY <1>6, SystemAssumption DEF PP!TypeOK, Pipe!PipelineAssumption, PP!Detector
  <2>6. /\ saved \notin {NoFile, Torn} /\ detector[t] \notin {NoFile, Torn}
        /\ saved.covered \subseteq Keys
    BY <2>5 DEF PP!Detector
  <2>7. \A k \in Keys : Threshold(detector[t], k) \in Thresholds
    BY MemoryModel DEF StoreInv
  <2>8. /\ Protected(store) \subseteq saved.covered
        /\ detector[t].covered \cap Keys \subseteq Protected(ModelOf(detector[t]))
    BY <2>6, <2>7, ProtectedCovered DEF StoreInv, StoreIsSaved
  <2>9. QED BY <1>2, <1>3, <1>4, <2>4, <2>6, <2>8
<1>7. QED BY <1>5, <1>6

(* A lone trainer polls what the last save was trained on, and maybe more.     *)
LEMMA TrainerCoverage ==
  ASSUME PP!TypeOK, PP!PolledFromStart, StoreInv, CoverageInv,
         NEW t, Trainers = {t}, MaxTimeouts = 0, Training(t)
  PROVE  CoverageInv' /\ Protected(store) \subseteq Protected(store')
<1> USE DEF PP!topicVars, PP!producerVars, PP!trainerVars, PP!fileVars
<1>1. PP!Training(t) /\ store' = ModelOf(saved') /\ loaded' = loaded
  BY PipeTraining DEF Training
<1>2. normal' = normal /\ validation' = validation
  BY <1>1 DEF PP!Training, PP!PollNormal, PP!PollValidation, PP!Train, PP!OpenFile,
              PP!WriteFile, PP!TrainCrash
<1>3. \A d : PP!FromBeginnings(d) => PP!FromBeginnings(d)'
  BY <1>2 DEF PP!FromBeginnings
<1>4. saved' = saved => store' = store
  BY <1>1 DEF StoreInv, StoreIsSaved
<1>5. \A a, b : Pipe!Trained(a, b) = PP!Trained(a, b)
  BY DEF Pipe!Trained, PP!Trained, Pipe!Rows, PP!Rows, Pipe!Fittable, PP!Fittable,
         Pipe!Group, PP!Group, Pipe!Cardinality, PP!Cardinality
<1>6. CASE PP!WriteFile(t)
  <2>1. tpc[t] = "writing" /\ saved' = detector[t] /\ tpc'[t] = "idle"
    BY <1>6 DEF PP!WriteFile, PP!Exit, PP!TypeOK
  <2>2. Protected(store) \subseteq Protected(store')
    BY <1>1, <2>1, SaveKeepsCoverage
  <2>3. saved'.trainCount <= Len(normal') /\ saved'.validationCount <= Len(validation')
    BY <1>2, <2>1, SaveKeepsCoverage
  <2>4. PP!FromBeginnings(saved)'
    <3>1. PP!FromBeginnings(detector[t])
      BY <2>1, SaveKeepsCoverage
    <3>2. QED BY <1>2, <2>1, <3>1 DEF PP!FromBeginnings
  <2>5. \A p \in Inspectors : Protected(loaded'[p]) \subseteq Protected(store')
    BY <1>1, <2>2 DEF CoverageInv, TrainsOnMore
  <2>6. TrainsOnMore'
    <3>1. \A u \in Trainers : tpc'[u] = "idle"
      BY <2>1
    <3>2. \A p \in Inspectors : Protected(loaded[p])' \subseteq Protected(store)'
      BY <2>5 DEF Protected
    <3>3. QED BY <2>3, <3>1, <3>2 DEF TrainsOnMore
  <2>7. QED BY <2>2, <2>4, <2>6 DEF CoverageInv
<1>7. CASE ~ PP!WriteFile(t)
  <2>1. saved' = saved /\ store' = store
    BY <1>1, <1>4, <1>7 DEF PP!Training, PP!PollNormal, PP!PollValidation, PP!Train,
                            PP!OpenFile, PP!TrainCrash
  <2>2. saved # NoFile => PP!FromBeginnings(saved)'
    BY <1>2, <2>1 DEF PP!FromBeginnings, CoverageInv
  <2>3. \A p \in Inspectors : Protected(loaded[p])' \subseteq Protected(store)'
    BY <1>1, <2>1 DEF CoverageInv, TrainsOnMore, Protected
  <2>4. ASSUME saved # NoFile
        PROVE  /\ tpc'[t] # "idle" => saved.trainCount <= Len(fit'[t])
               /\ tpc'[t] \notin {"idle", "normal"} => saved.validationCount <= Len(held'[t])
    <3>1. /\ saved.trainCount <= Len(normal) /\ saved.validationCount <= Len(validation)
          /\ tpc[t] # "idle" => saved.trainCount <= Len(fit[t])
          /\ tpc[t] \notin {"idle", "normal"} => saved.validationCount <= Len(held[t])
      BY <2>4 DEF CoverageInv, TrainsOnMore
    <3>2. CASE PP!PollNormal(t)
      <4>1. PICK n \in 0 .. Len(normal) :
              /\ n < Len(normal) => spent.timeouts < MaxTimeouts
              /\ fit' = [fit EXCEPT ![t] = PP!Batch(normal, n)]
        BY <3>2 DEF PP!PollNormal
      <4>2. Len(fit'[t]) = Len(normal) /\ tpc'[t] = "normal"
        BY <1>1, <3>2, <4>1, WholeTopic DEF PP!PollNormal, PP!TypeOK
      <4>3. QED BY <3>1, <4>2
    <3>3. CASE PP!PollValidation(t)
      <4>1. PICK n \in 0 .. Len(validation) :
              /\ n < Len(validation) => spent.timeouts < MaxTimeouts
              /\ held' = [held EXCEPT ![t] = PP!Batch(validation, n)]
        BY <3>3 DEF PP!PollValidation
      <4>2. Len(held'[t]) = Len(validation) /\ tpc[t] # "idle" /\ fit' = fit
        BY <1>1, <3>3, <4>1, WholeTopic DEF PP!PollValidation, PP!TypeOK
      <4>3. QED BY <3>1, <4>2
    <3>4. CASE PP!Train(t) \/ PP!OpenFile(t)
      BY <3>1, <3>4 DEF PP!Train, PP!OpenFile, PP!TypeOK
    <3>5. CASE PP!TrainCrash(t)
      BY <3>5 DEF PP!TrainCrash, PP!Exit, PP!TypeOK
    <3>6. QED BY <1>1, <1>7, <3>2, <3>3, <3>4, <3>5 DEF PP!Training
  <2>5. tpc'[t] \in {"trained", "writing"} => detector'[t] = PP!Trained(fit'[t], held'[t])
    <3>1. CASE PP!PollNormal(t) \/ PP!PollValidation(t) \/ PP!TrainCrash(t)
      BY <3>1 DEF PP!PollNormal, PP!PollValidation, PP!TrainCrash, PP!Exit, PP!TypeOK
    <3>2. CASE PP!Train(t)
      BY <3>2 DEF PP!Train, PP!TypeOK
    <3>3. CASE PP!OpenFile(t)
      <4>1. detector[t] = PP!Trained(fit[t], held[t])
        BY <1>5, <3>3 DEF PP!OpenFile, CoverageInv, TrainsOnMore
      <4>2. QED BY <3>3, <4>1 DEF PP!OpenFile
    <3>4. QED BY <1>1, <1>7, <3>1, <3>2, <3>3 DEF PP!Training
  <2>6. saved' # NoFile =>
          saved'.trainCount <= Len(normal') /\ saved'.validationCount <= Len(validation')
    BY <1>2, <2>1 DEF CoverageInv, TrainsOnMore
  <2>7. \A u \in Trainers :
          tpc'[u] \in {"trained", "writing"} => detector'[u] = Pipe!Trained(fit[u], held[u])'
    <3>1. Pipe!Trained(fit[t], held[t])' = PP!Trained(fit'[t], held'[t])
      BY DEF Pipe!Trained, PP!Trained, Pipe!Rows, PP!Rows, Pipe!Fittable, PP!Fittable,
             Pipe!Group, PP!Group, Pipe!Cardinality, PP!Cardinality
    <3>2. QED BY <2>5, <3>1
  <2>8. TrainsOnMore'
    BY <2>1, <2>3, <2>4, <2>6, <2>7 DEF TrainsOnMore
  <2>9. QED BY <2>1, <2>2, <2>8 DEF CoverageInv
<1>8. QED BY <1>6, <1>7

(* Who does not train only makes the topics longer, or loads what is stored.   *)
LEMMA StepCoverage ==
  ASSUME NEW t, Trainers = {t}, MaxTimeouts = 0
  PROVE  PP!TypeOK /\ PP!PolledFromStart /\ StoreInv /\ CoverageInv /\ [Next]_vars =>
           /\ CoverageInv'
           /\ Protected(store) \subseteq Protected(store')
           /\ \A p \in Inspectors : loaded'[p] \in {loaded[p], store}
<1> SUFFICES ASSUME PP!TypeOK, PP!PolledFromStart, StoreInv, CoverageInv, [Next]_vars
             PROVE  /\ CoverageInv'
                    /\ Protected(store) \subseteq Protected(store')
                    /\ \A p \in Inspectors : loaded'[p] \in {loaded[p], store}
  OBVIOUS
<1>1. CASE Training(t)
  <2>1. loaded' = loaded
    BY <1>1 DEF Training
  <2>2. QED BY <1>1, <2>1, TrainerCoverage
<1>2. CASE ~ Training(t)
  <2>1. UNCHANGED <<tpc, fit, held, detector, file, saved, store, retrains>>
    BY <1>2, OthersKeepStore
  <2>2. \A p \in Inspectors : loaded'[p] \in {loaded[p], store}
    BY LoadedSteps DEF StoreInv, StoreIsSaved
  <2>3. /\ Len(normal) <= Len(normal') /\ Len(validation) <= Len(validation')
        /\ \A d : PP!FromBeginnings(d) => PP!FromBeginnings(d)'
    BY PipeStep, TopicsGrow
  <2>4. saved' # NoFile => PP!FromBeginnings(saved)'
    <3>1. saved # NoFile => PP!FromBeginnings(saved)
      BY DEF CoverageInv
    <3>2. saved # NoFile => \E a, b \in PP!Batches :
            PP!Begins(a, normal') /\ PP!Begins(b, validation') /\ saved = PP!Trained(a, b)
      BY <2>3, <3>1 DEF PP!FromBeginnings
    <3>3. QED BY <2>1, <3>2 DEF PP!FromBeginnings
  <2>5. \A p \in Inspectors : Protected(loaded[p])' \subseteq Protected(store)'
    BY <2>1, <2>2 DEF CoverageInv, TrainsOnMore, Protected
  <2>6. /\ Len(normal) \in Nat /\ Len(normal') \in Nat
        /\ Len(validation) \in Nat /\ Len(validation') \in Nat
    <3>1. PP!TypeOK'
      BY PipeStep, PP!StepTypes, SystemAssumption DEF Pipe!PipelineAssumption
    <3>2. QED BY <3>1 DEF PP!TypeOK
  <2>7. saved' # NoFile =>
          saved'.trainCount <= Len(normal') /\ saved'.validationCount <= Len(validation')
    <3>1. saved # NoFile => saved.trainCount \in Nat /\ saved.validationCount \in Nat
      BY DEF PP!TypeOK, PP!Detector
    <3>2. saved # NoFile =>
            saved.trainCount <= Len(normal) /\ saved.validationCount <= Len(validation)
      BY DEF CoverageInv, TrainsOnMore
    <3>3. QED BY <2>1, <2>3, <2>6, <3>1, <3>2
  <2>8. \A u \in Trainers :
          tpc'[u] \in {"trained", "writing"} => detector'[u] = Pipe!Trained(fit[u], held[u])'
    <3>1. \A u : Pipe!Trained(fit[u], held[u])' = Pipe!Trained(fit[u], held[u])
      BY <2>1 DEF Pipe!Trained, Pipe!Rows, Pipe!Fittable, Pipe!Group
    <3>2. QED BY <2>1, <3>1 DEF CoverageInv, TrainsOnMore
  <2>9. TrainsOnMore'
    BY <2>1, <2>5, <2>7, <2>8 DEF CoverageInv, TrainsOnMore
  <2>10. QED BY <2>1, <2>2, <2>4, <2>9 DEF CoverageInv
<1>3. QED BY <1>1, <1>2

(* A restart never turns protection off: whatever an inspector loads covers    *)
(* what it covered before, if one command trains at a time and its polls reach *)
(* the end of the topics; whoever is killed, and whatever sends are lost.      *)
THEOREM RestartsKeepCoverage ==
  ASSUME NEW t, Trainers = {t}, MaxTimeouts = 0
  PROVE  Spec => ReloadKeepsCoverage
<1>1. Init => CoverageInv
  BY InitCoverage
<1>2. PP!TypeOK /\ PP!PolledFromStart /\ StoreInv /\ CoverageInv /\ [Next]_vars =>
        /\ CoverageInv'
        /\ [\A p \in Inspectors : Protected(loaded[p]) \subseteq Protected(loaded'[p])]_vars
  <2> SUFFICES ASSUME PP!TypeOK, PP!PolledFromStart, StoreInv, CoverageInv, [Next]_vars
               PROVE  /\ CoverageInv'
                      /\ \A p \in Inspectors :
                           Protected(loaded[p]) \subseteq Protected(loaded'[p])
    OBVIOUS
  <2>1. CoverageInv' /\ \A p \in Inspectors : loaded'[p] \in {loaded[p], store}
    BY StepCoverage
  <2>2. QED BY <2>1 DEF CoverageInv, TrainsOnMore
<1>3. QED
  BY <1>1, <1>2, StoreHolds, PipelineHolds, PTL DEF Spec, ReloadKeepsCoverage

------------------------------------------------------------------------------
(* The inspectors, with what is proved about them.                             *)
WP == INSTANCE KafkaInspectorProofs WITH
        Models          <- [Keys -> Thresholds \cup {NoModel}],
        MaxSendFailures <- MaxLostVerdicts,
        MaxRetrains     <- MaxTrainings

(* What is assumed of the inspectors is assumed of the system.                 *)
LEMMA WireAssumed == WP!NoModelAssumption /\ WP!InspectorAssumption
BY SystemAssumption
   DEF Wire!NoModelAssumption, WP!NoModelAssumption, Wire!InspectorAssumption,
       WP!InspectorAssumption, Wire!Request, WP!Request, Wire!Model, WP!Model,
       Wire!Policies, WP!Policies, Wire!DetectorTuple, WP!DetectorTuple

(* Both instances of the inspectors decide alike.                              *)
LEMMA WireDecides ==
  /\ \A d, m, r : Wire!Raises(d, m, r) <=> WP!Raises(d, m, r)
  /\ \A p, d, m, r : Wire!Decide(p, d, m, r) = WP!Decide(p, d, m, r)
BY DEF Wire!Raises, WP!Raises, Wire!Decide, WP!Decide, Wire!Signals, WP!Signals,
       Wire!Inspect, WP!Inspect, Wire!RuleSetInspect, WP!RuleSetInspect,
       Wire!HmmInspect, WP!HmmInspect, Wire!FirstRule, WP!FirstRule,
       Wire!IsTrained, WP!IsTrained, Wire!Covered, WP!Covered,
       Wire!Anomalous, WP!Anomalous, Wire!ShouldBlock, WP!ShouldBlock,
       Wire!Reason, WP!Reason, Wire!Blocking, WP!Blocking

(* They start alike and do the same.                                           *)
LEMMA WireSame == WireSpec => WP!Spec
<1>1. Wire!Init => WP!Init
  BY DEF Wire!Init, WP!Init
<1>2. [Wire!Next]_Wire!vars => [WP!Next]_WP!vars
  <2> SUFFICES ASSUME [Wire!Next]_Wire!vars PROVE [WP!Next]_WP!vars
    OBVIOUS
  <2> USE DEF Wire!topicVars, WP!topicVars, Wire!groupVars, WP!groupVars,
              Wire!procVars, WP!procVars, Wire!boundVars, WP!boundVars
  <2>1. CASE Wire!Submit \/ Wire!Retrain \/ Wire!Arrive
    BY <2>1 DEF Wire!Submit, WP!Submit, Wire!Retrain, WP!Retrain, Wire!Arrive, WP!Arrive, WP!Next
  <2>2. ASSUME NEW p \in Inspectors, Wire!Step(p) PROVE WP!Step(p)
    <3>1. CASE Wire!Answer(p)
      <4>1. WP!CanDecide(p) /\ WP!VerdictOf(p) = Wire!VerdictOf(p)
        BY <3>1, WireDecides
           DEF Wire!Answer, Wire!CanDecide, WP!CanDecide, Wire!VerdictOf, WP!VerdictOf
      <4>2. WP!Answer(p)
        BY <3>1, <4>1 DEF Wire!Answer, WP!Answer
      <4>3. QED BY <4>2 DEF WP!Step
    <3>2. CASE Wire!Raise(p)
      <4>1. ~ WP!CanDecide(p)
        BY <3>2, WireDecides DEF Wire!Raise, Wire!CanDecide, WP!CanDecide
      <4>2. WP!Raise(p)
        BY <3>2, <4>1 DEF Wire!Raise, WP!Raise, Wire!Released, WP!Released
      <4>3. QED BY <4>2 DEF WP!Step
    <3>3. CASE Wire!Start(p) \/ Wire!Assign(p) \/ Wire!Poll(p) \/ Wire!Fetch(p)
      BY <3>3 DEF Wire!Start, WP!Start, Wire!ModelRead, WP!ModelRead,
                  Wire!Assign, WP!Assign, Wire!AssignableTo, WP!AssignableTo, Wire!Poll, WP!Poll, Wire!Fetch, WP!Fetch,
                  Wire!Drained, WP!Drained, Wire!StartPosition, WP!StartPosition,
                  Wire!BatchEnds, WP!BatchEnds, WP!Step
    <3>4. QED BY <2>2, <3>1, <3>2, <3>3 DEF Wire!Step
  <2>3. ASSUME NEW p \in Inspectors, Wire!AnswerLost(p) PROVE WP!AnswerLost(p)
    BY <2>3, WireDecides DEF Wire!AnswerLost, WP!AnswerLost, Wire!CanDecide, WP!CanDecide,
                             Wire!Cardinality, WP!Cardinality
  <2>7. ASSUME NEW p \in Inspectors, Wire!Resend(p) PROVE WP!Resend(p)
    <3>1. WP!CanDecide(p) /\ WP!VerdictOf(p) = Wire!VerdictOf(p)
      BY <2>7, WireDecides
         DEF Wire!Resend, Wire!CanDecide, WP!CanDecide, Wire!VerdictOf, WP!VerdictOf
    <3>2. QED BY <2>7, <3>1 DEF Wire!Resend, WP!Resend, Wire!Disruptable, WP!Disruptable
  <2>4. ASSUME NEW p \in Inspectors, Wire!AutoCommit(p) \/ Wire!Evict(p) \/ Wire!Crash(p)
        PROVE  WP!AutoCommit(p) \/ WP!Evict(p) \/ WP!Crash(p)
    BY <2>4 DEF Wire!AutoCommit, WP!AutoCommit, Wire!Committable, WP!Committable,
                Wire!Drained, WP!Drained, Wire!Evict, WP!Evict, Wire!Crash, WP!Crash,
                Wire!Released, WP!Released, Wire!Disruptable, WP!Disruptable
  <2>5. CASE UNCHANGED Wire!vars
    BY <2>5 DEF Wire!vars, WP!vars
  <2>6. QED BY <2>1, <2>2, <2>3, <2>4, <2>5, <2>7 DEF Wire!Next, WP!Next
<1>3. QED BY <1>1, <1>2, PTL DEF WireSpec, Wire!Spec, WP!Spec

(* The system as a whole keeps the promise of the service, however often its   *)
(* detector is trained anew beside it: requests are settled in order, each     *)
(* with the verdict one model gives; what the group has consumed was decided   *)
(* and sent; and as long as no request raises, none is answered more often     *)
(* than once and once more per crash, eviction or repeated send.               *)
THEOREM EndToEnd ==
  Spec => WP!ServiceSafety /\ [](WP!CommittedHandled /\ WP!DuplicatesBounded)
<1>1. WP!Spec => WP!ServiceSafety
  BY WP!Implementation, WireAssumed
<1>2. WP!Spec => []WP!CommittedHandled
  BY WP!AtLeastOnce, WireAssumed
<1>3. WP!Spec => []WP!DuplicatesBounded
  BY WP!DuplicatesAreBounded, WireAssumed
<1>4. QED BY <1>1, <1>2, <1>3, FileIsAStore, WireSame, PTL
==============================================================================
