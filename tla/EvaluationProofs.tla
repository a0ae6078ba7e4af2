-------------------------- MODULE EvaluationProofs ---------------------------
(* The evaluation, for every set of files, detectors, limits and bounds: types,*)
(* the balanced sample, the agreement of the two commands, and the packets of  *)
(* a file whose columns are arranged in another way.                           *)
EXTENDS Evaluation, FiniteSetTheorems, SequenceTheorems, TLAPS

Labels == {"normal", "anomalous", "other"}

Cells == {"tp", "fp", "fn", "tn"}

------------------------------------------------------------------------------
(* The class of a packet is one of three.                                      *)
LEMMA ClassType ==
  ASSUME NEW packet
  PROVE  Class(packet) \in Labels
BY DEF Class, Labels, NormalLabels, AnomalousLabels

(* The flows of a file are a sequence, and each has a class.                   *)
LEMMA FlowsType ==
  ASSUME file \in Files,
         flows = [j \in DOMAIN file.rows |-> LabeledFlow(file.header, file.rows[j])]
  PROVE  /\ Len(flows) \in Nat /\ DOMAIN flows = 1 .. Len(flows)
         /\ \A j \in DOMAIN flows : flows[j].label \in Labels
<1>1. file.rows \in Seq(Seq(CellText))
  BY EvaluationAssumption
<1>2. DOMAIN file.rows = 1 .. Len(file.rows) /\ Len(file.rows) \in Nat
  BY <1>1, LenProperties
<1>3. flows \in Seq(Range(flows))
  BY <1>2, IsASeq DEF Range
<1>4. Len(flows) = Len(file.rows)
  BY <1>2, <1>3, LenProperties
<1>5. \A j \in DOMAIN flows : flows[j].label \in Labels
  BY ClassType DEF LabeledFlow
<1>6. QED BY <1>2, <1>4, <1>5

(* A share is a positive number.                                               *)
LEMMA QuotaType ==
  ASSUME NEW l \in Limits
  PROVE  Quota(l) \in Nat /\ Quota(l) >= 1
BY EvaluationAssumption DEF Quota

(* A finite set of positions that grows by the next one.                       *)
LEMMA OneMore ==
  ASSUME NEW n \in Nat, NEW S \in SUBSET (1 .. n), NEW m \in Nat, m > n
  PROVE  /\ IsFiniteSet(S) /\ Cardinality(S) \in Nat
         /\ Cardinality(S \cup {m}) = Cardinality(S) + 1
<1>1. IsFiniteSet(1 .. n)
  BY FS_Interval
<1>2. IsFiniteSet(S)
  BY <1>1, FS_Subset
<1>3. m \notin S
  OBVIOUS
<1>4. Cardinality(S) \in Nat
  BY <1>2, FS_CardinalityType
<1>5. Cardinality(S \cup {m}) = Cardinality(S) + 1
  BY <1>2, <1>3, FS_AddElement
<1>6. QED BY <1>2, <1>4, <1>5

(* An appended row counts once, under its own class.                           *)
LEMMA CountGrows ==
  ASSUME NEW S, NEW s \in Seq(S), NEW j \in S, NEW c
  PROVE  /\ Count(s, c) \in Nat
         /\ Count(Append(s, j), c) = IF flows[j].label = c THEN Count(s, c) + 1
                                                           ELSE Count(s, c)
<1> DEFINE old == {i \in DOMAIN s : flows[s[i]].label = c}
           now == {i \in DOMAIN Append(s, j) : flows[Append(s, j)[i]].label = c}
<1>1. /\ Len(s) \in Nat /\ DOMAIN s = 1 .. Len(s)
      /\ DOMAIN Append(s, j) = 1 .. (Len(s) + 1)
      /\ \A i \in 1 .. Len(s) : Append(s, j)[i] = s[i]
      /\ Append(s, j)[Len(s) + 1] = j
  BY AppendProperties, LenProperties
<1>2. old \in SUBSET (1 .. Len(s))
  BY <1>1
<1>3. now = IF flows[j].label = c THEN old \cup {Len(s) + 1} ELSE old
  BY <1>1
<1>4. \A R \in SUBSET (1 .. Len(s)) : /\ Cardinality(R) \in Nat
                                     /\ Cardinality(R \cup {Len(s) + 1}) = Cardinality(R) + 1
  <2>1. Len(s) + 1 \in Nat /\ Len(s) + 1 > Len(s)
    BY <1>1
  <2>2. QED BY <1>1, <2>1, OneMore
<1>5. Count(s, c) = Cardinality(old) /\ Count(Append(s, j), c) = Cardinality(now)
  BY DEF Count
<1> HIDE DEF old, now
<1>6. QED BY <1>2, <1>3, <1>4, <1>5

------------------------------------------------------------------------------
(* A tally is kept.                                                            *)
LEMMA CountedType ==
  ASSUME NEW t \in Tally, NEW r
  PROVE  Counted(t, r) \in Tally
<1>1. MatrixCell(model, r) \in Cells
  BY DEF MatrixCell, Cells
<1>2. \A x \in Cells \cup {"covered", "uncovered"} : \A u \in Tally :
         [u EXCEPT ![x] = @ + 1] \in Tally
  BY DEF Cells, Tally
<1>3. [t EXCEPT !.covered = @ + 1, ![MatrixCell(model, r)] = @ + 1] \in Tally
  <2>1. ASSUME NEW x \in Cells
        PROVE  [t EXCEPT !.covered = @ + 1, ![x] = @ + 1] =
                 [[t EXCEPT !.covered = @ + 1] EXCEPT ![x] = @ + 1]
    BY <2>1 DEF Cells, Tally
  <2>2. QED BY <1>1, <1>2, <2>1
<1>4. QED BY <1>2, <1>3 DEF Counted

(* Scoring a list gives a tally.                                               *)
LEMMA ScoresType ==
  ASSUME NEW S, NEW batch \in Seq(S)
  PROVE  ScoreLabeledFlows(batch) \in Tally
<1>1. Len(batch) \in Nat /\ DOMAIN batch = 1 .. Len(batch)
  BY LenProperties
<1>2. \A R \in SUBSET DOMAIN batch : Cardinality(R) \in Nat
  <2>1. IsFiniteSet(DOMAIN batch)
    BY <1>1, FS_Interval
  <2>2. QED BY <2>1, FS_Subset, FS_CardinalityType
<1>3. \A c : {i \in {i \in DOMAIN batch : Covered(model, flows[batch[i]])} :
                MatrixCell(model, flows[batch[i]]) = c} \in SUBSET DOMAIN batch
  OBVIOUS
<1>4. QED BY <1>2, <1>3 DEF ScoreLabeledFlows, Tally

------------------------------------------------------------------------------
(* The type invariant holds at first,                                          *)
LEMMA TypeInit == Init => TypeOK
<1> SUFFICES ASSUME Init PROVE TypeOK
  OBVIOUS
<1>1. Len(flows) \in Nat /\ DOMAIN flows = 1 .. Len(flows)
  BY FlowsType DEF Init
<1>2. NewTally \in Tally
  BY DEF NewTally, Tally
<1>3. QED BY <1>1, <1>2 DEF Init, TypeOK

(* and is kept by every step.                                                  *)
LEMMA TypeStep == TypeOK /\ [Next]_vars => TypeOK'
<1> SUFFICES ASSUME TypeOK, [Next]_vars PROVE TypeOK'
  OBVIOUS
<1> USE DEF TypeOK
<1>1. Len(flows) \in Nat /\ DOMAIN flows = 1 .. Len(flows)
  BY FlowsType
<1>2. ASSUME ReadRow PROVE next' \in 1 .. (Len(flows) + 1) /\ next \in DOMAIN flows
  BY <1>1, <1>2 DEF ReadRow, Sampled
<1>3. ASSUME NEW l \in Limits \cup {NoLimit}, Evaluate(l) \/ ProduceEval(l) PROVE TypeOK'
  <2>1. NewTally \in Tally
    BY DEF NewTally, Tally
  <2>2. /\ command' \in {"evaluate", "produce"} /\ limit' = l /\ next' = 1
        /\ taken' = <<>> /\ tally' \in Tally
        /\ UNCHANGED <<file, model, flows, outcome, polled, topic>>
    BY <1>3, <2>1 DEF Evaluate, ProduceEval, Begin, inputs
  <2>3. origin' \in Limits \cup {NoLimit, NoRun, Mixed}
    BY <1>3 DEF Evaluate, ProduceEval
  <2>4. spent' \in [commands : Nat, polls : Nat, failures : Nat]
    BY <1>3 DEF Evaluate, ProduceEval, Begin
  <2>5. 1 \in 1 .. (Len(flows) + 1) /\ <<>> \in Seq(DOMAIN flows)
    BY <1>1
  <2>6. QED BY <2>2, <2>3, <2>4, <2>5
<1>4. CASE Skip
  BY <1>2, <1>4 DEF Skip, ReadRow, inputs, topicOf
<1>5. ASSUME Take PROVE /\ taken' \in Seq(DOMAIN flows) /\ next \in DOMAIN flows
                        /\ next' \in 1 .. (Len(flows) + 1)
                        /\ UNCHANGED <<command, limit, inputs, outcome, polled>>
  BY <1>2, <1>5, AppendProperties DEF Take, ReadRow
<1>6. CASE ScoreRow
  <2>1. tally' \in Tally
    BY <1>6, CountedType DEF ScoreRow
  <2>2. QED BY <1>5, <1>6, <2>1 DEF ScoreRow, topicOf, inputs
<1>7. CASE PublishRow
  <2>1. topic' \in Seq(DOMAIN flows)
    BY <1>5, <1>7, AppendProperties DEF PublishRow
  <2>2. QED BY <1>5, <1>7, <2>1 DEF PublishRow, inputs
<1>8. CASE PublishLost
  BY <1>5, <1>8 DEF PublishLost, inputs
<1>9. CASE Finish
  BY <1>9 DEF Finish, inputs, topicOf
<1>10. CASE EvaluateFromPipe
  <2>1. PICK n \in 0 .. Len(topic) :
          polled' = [of    |-> IF n = Len(topic) /\ command # "produce" THEN origin ELSE Mixed,
                     tally |-> ScoreLabeledFlows(SubSeq(topic, FirstPolled, n))]
    BY <1>10 DEF EvaluateFromPipe
  <2>2. SubSeq(topic, FirstPolled, n) \in Seq(DOMAIN flows)
    <3>1. topic \in Seq(DOMAIN flows) /\ Len(topic) \in Nat
      BY LenProperties
    <3>2. 1 \in 1 .. (Len(topic) + 1) /\ n \in (1 - 1) .. Len(topic)
      BY <3>1
    <3> HIDE DEF TypeOK
    <3>3. QED BY <3>1, <3>2, SubSeqProperties DEF FirstPolled
  <2>3. ScoreLabeledFlows(SubSeq(topic, FirstPolled, n)) \in Tally
    BY <2>2, ScoresType
  <2>4. QED BY <1>10, <2>1, <2>3 DEF EvaluateFromPipe, inputs, sampling, topicOf
<1>11. CASE LateCopy
  <2>1. PICK i \in DOMAIN topic : topic' = Append(topic, topic[i])
    BY <1>11 DEF LateCopy
  <2>2. topic' \in Seq(DOMAIN flows)
    BY <2>1, AppendProperties
  <2>3. spent' \in [commands : Nat, polls : Nat, failures : Nat]
    <3>1. spent' = [spent EXCEPT !.failures = @ + 1]
      BY <1>11 DEF LateCopy
    <3>2. spent \in [commands : Nat, polls : Nat, failures : Nat]
      OBVIOUS
    <3> HIDE DEF TypeOK
    <3>3. QED BY <3>1, <3>2
  <2>4. UNCHANGED <<inputs, sampling, outcome, polled>> /\ origin' = Mixed
    BY <1>11 DEF LateCopy
  <2>5. QED BY <2>2, <2>3, <2>4 DEF inputs, sampling
<1>12. CASE UNCHANGED vars
  BY <1>12 DEF vars, inputs, sampling, topicOf
<1>13. QED BY <1>3, <1>4, <1>6, <1>7, <1>8, <1>9, <1>10, <1>11, <1>12 DEF Next

(* Every variable of an evaluation keeps its type, for any files, limits and   *)
(* bounds: samples and topic hold rows of the file, tallies natural numbers.   *)
THEOREM TypeCorrect == Spec => []TypeOK
BY TypeInit, TypeStep, PTL DEF Spec

------------------------------------------------------------------------------
(* An appended row is added to the rows.                                       *)
LEMMA AppendRows ==
  ASSUME NEW S, NEW s \in Seq(S), NEW j \in S
  PROVE  Rows(Append(s, j)) = Rows(s) \cup {j}
<1>1. /\ Len(s) \in Nat /\ DOMAIN s = 1 .. Len(s)
      /\ DOMAIN Append(s, j) = 1 .. (Len(s) + 1)
      /\ \A i \in 1 .. Len(s) : Append(s, j)[i] = s[i]
      /\ Append(s, j)[Len(s) + 1] = j
  BY AppendProperties, LenProperties
<1>2. QED BY <1>1 DEF Rows

(* What was seen of a class is a number of rows, and reading a row adds it to  *)
(* its class and to no other.                                                  *)
LEMMA SeenGrows ==
  ASSUME TypeOK, next \in DOMAIN flows, next' = next + 1, flows' = flows, NEW c
  PROVE  /\ Cardinality(Seen(c)) \in Nat
         /\ Cardinality(Seen(c)') = IF flows[next].label = c THEN Cardinality(Seen(c)) + 1
                                                             ELSE Cardinality(Seen(c))
<1>1. Len(flows) \in Nat /\ next \in Nat \ {0}
  BY FlowsType DEF TypeOK
<1>2. Seen(c) \in SUBSET (1 .. (next - 1)) /\ next - 1 \in Nat /\ next > next - 1
  BY <1>1 DEF Seen
<1>3. Seen(c)' = IF flows[next].label = c THEN Seen(c) \cup {next} ELSE Seen(c)
  BY <1>1 DEF Seen
<1>4. Cardinality(Seen(c)) \in Nat /\ Cardinality(Seen(c) \cup {next}) = Cardinality(Seen(c)) + 1
  BY <1>1, <1>2, OneMore
<1>5. QED BY <1>3, <1>4

(* The sampler yields a row exactly if it belongs to the sample.               *)
LEMMA YieldsSample ==
  ASSUME TypeOK, SampleSoFar, next \in DOMAIN flows
  PROVE  Yields(next) <=> InSample(limit, next)
<1>1. CASE limit = NoLimit
  BY <1>1 DEF Yields, InSample
<1>2. CASE limit # NoLimit /\ flows[next].label = "other"
  BY <1>2 DEF Yields, InSample
<1>3. CASE limit # NoLimit /\ flows[next].label # "other"
  <2>1. flows[next].label \in {"normal", "anomalous"} /\ Len(flows) \in Nat
    BY <1>3, FlowsType DEF TypeOK, Labels
  <2>2. Earlier(next) = Seen(flows[next].label)
    BY DEF Earlier, Seen
  <2>3. next - 1 \in Nat /\ next \in Nat /\ next > next - 1
    BY <2>1, FlowsType DEF TypeOK
  <2>4. Seen(flows[next].label) \in SUBSET (1 .. (next - 1))
    BY DEF Seen
  <2>5. Cardinality(Seen(flows[next].label)) \in Nat
    BY <2>3, <2>4, OneMore
  <2>6. Quota(limit) \in Nat
    BY <1>3, QuotaType DEF TypeOK
  <2>7. Count(taken, flows[next].label) =
          IF Cardinality(Seen(flows[next].label)) < Quota(limit)
          THEN Cardinality(Seen(flows[next].label)) ELSE Quota(limit)
    BY <1>3, <2>1 DEF SampleSoFar
  <2>8. Count(taken, flows[next].label) < Quota(limit)
          <=> Cardinality(Earlier(next)) < Quota(limit)
    BY <2>2, <2>5, <2>6, <2>7
  <2>9. QED BY <1>3, <2>8 DEF Yields, InSample
<1>4. QED BY <1>1, <1>2, <1>3

(* A sampler that has read nothing has taken nothing.                          *)
LEMMA SampleInit == Init => SampleSoFar
<1> SUFFICES ASSUME Init PROVE SampleSoFar
  OBVIOUS
<1>1. Rows(taken) = {} /\ {j \in 1 .. (next - 1) : InSample(limit, j)} = {}
  BY DEF Init, Rows
<1>2. limit = NoLimit
  BY DEF Init
<1>3. QED BY <1>1, <1>2 DEF SampleSoFar

(* The next command starts its sampler afresh.                                 *)
LEMMA SampleBegins ==
  ASSUME TypeOK, NEW name, NEW l \in Limits \cup {NoLimit}, Begin(name, l)
  PROVE  SampleSoFar'
<1>1. next' = 1 /\ taken' = <<>> /\ limit' = l
  BY DEF Begin
<1>2. Rows(taken)' = {} /\ {j \in 1 .. (next - 1) : InSample(limit, j)}' = {}
  BY <1>1 DEF Rows
<1>3. ASSUME NEW c, l # NoLimit PROVE Count(taken, c)' = 0 /\ Cardinality(Seen(c))' = 0
  <2>1. Seen(c)' = {}
    BY <1>1 DEF Seen
  <2>2. {i \in DOMAIN taken' : flows'[taken'[i]].label = c} = {}
    BY <1>1
  <2>3. QED BY <2>1, <2>2, FS_EmptySet DEF Count
<1>4. l # NoLimit => Quota(limit)' \in Nat /\ Quota(limit)' >= 1
  <2>1. Quota(limit)' = Quota(l)
    BY <1>1 DEF Quota
  <2>2. QED BY <2>1, QuotaType
<1>5. QED BY <1>1, <1>2, <1>3, <1>4 DEF SampleSoFar

(* Reading a row, taken or not, keeps the sample.                              *)
LEMMA SampleReads ==
  ASSUME TypeOK, SampleSoFar, ReadRow,
         taken' = IF Yields(next) THEN Append(taken, next) ELSE taken
  PROVE  SampleSoFar'
<1>1. /\ next \in DOMAIN flows /\ next' = next + 1 /\ flows' = flows /\ limit' = limit
      /\ next \in Nat \ {0}
  BY FlowsType DEF ReadRow, Sampled, TypeOK, inputs
<1>2. Yields(next) <=> InSample(limit, next)
  BY <1>1, YieldsSample
<1>3. \A j : InSample(limit, j)' <=> InSample(limit, j)
  BY <1>1 DEF InSample, Earlier, Quota
<1>4. Rows(taken)' = IF Yields(next) THEN Rows(taken) \cup {next} ELSE Rows(taken)
  <2>1. Rows(taken)' = Rows(taken')
    BY DEF Rows
  <2>2. Rows(Append(taken, next)) = Rows(taken) \cup {next}
    BY <1>1, AppendRows DEF TypeOK
  <2>3. QED BY <2>1, <2>2
<1>5. Rows(taken)' = {j \in 1 .. (next - 1) : InSample(limit, j)}'
  <2>1. Rows(taken) = {j \in 1 .. (next - 1) : InSample(limit, j)}
    BY DEF SampleSoFar
  <2>2. {j \in 1 .. (next' - 1) : InSample(limit, j)'} = {j \in 1 .. next : InSample(limit, j)}
    BY <1>1, <1>3
  <2>3. QED BY <1>1, <1>2, <1>4, <2>1, <2>2
<1>6. ASSUME NEW c \in {"normal", "anomalous"}, limit # NoLimit
      PROVE  Count(taken, c)' =
               IF Cardinality(Seen(c))' < Quota(limit)' THEN Cardinality(Seen(c))'
                                                        ELSE Quota(limit)'
  <2>1. Count(taken, c)' = IF Yields(next) /\ flows[next].label = c THEN Count(taken, c) + 1
                                                                    ELSE Count(taken, c)
    <3>1. Count(taken, c)' = Count(taken', c)
      BY <1>1 DEF Count
    <3>2. Count(Append(taken, next), c) =
            IF flows[next].label = c THEN Count(taken, c) + 1 ELSE Count(taken, c)
      BY <1>1, CountGrows DEF TypeOK
    <3>3. QED BY <3>1, <3>2
  <2>2. /\ Cardinality(Seen(c)) \in Nat
        /\ Cardinality(Seen(c))' = IF flows[next].label = c THEN Cardinality(Seen(c)) + 1
                                                            ELSE Cardinality(Seen(c))
    <3>1. Cardinality(Seen(c))' = Cardinality(Seen(c)')
      OBVIOUS
    <3>2. QED BY <1>1, <3>1, SeenGrows
  <2>3. Quota(limit) \in Nat /\ Quota(limit)' = Quota(limit)
    BY <1>1, <1>6, QuotaType DEF TypeOK, Quota
  <2>4. Count(taken, c) = IF Cardinality(Seen(c)) < Quota(limit) THEN Cardinality(Seen(c))
                                                                 ELSE Quota(limit)
    BY <1>6 DEF SampleSoFar
  <2>5. flows[next].label = c => (Yields(next) <=> Count(taken, c) < Quota(limit))
    BY <1>6 DEF Yields
  <2>6. QED BY <2>1, <2>2, <2>3, <2>4, <2>5
<1>7. QED BY <1>1, <1>5, <1>6 DEF SampleSoFar

(* Every step keeps what the sampler has taken in line with what it has seen.  *)
LEMMA SampleStep == TypeOK /\ SampleSoFar /\ [Next]_vars => SampleSoFar'
<1> SUFFICES ASSUME TypeOK, SampleSoFar, [Next]_vars PROVE SampleSoFar'
  OBVIOUS
<1>1. ASSUME NEW l \in Limits \cup {NoLimit}, Evaluate(l) \/ ProduceEval(l) PROVE SampleSoFar'
  BY <1>1, SampleBegins DEF Evaluate, ProduceEval
<1>2. CASE Skip
  BY <1>2, SampleReads DEF Skip
<1>3. CASE ScoreRow \/ PublishRow \/ PublishLost
  BY <1>3, SampleReads DEF ScoreRow, PublishRow, PublishLost, Take
<1>4. CASE Finish \/ LateCopy \/ EvaluateFromPipe \/ UNCHANGED vars
  <2>1. UNCHANGED <<next, limit, taken, flows>>
    BY <1>4 DEF Finish, LateCopy, EvaluateFromPipe, vars, inputs, sampling
  <2>2. Rows(taken)' = Rows(taken) /\ Quota(limit)' = Quota(limit)
    BY <2>1 DEF Rows, Quota
  <2>3. \A j : InSample(limit, j)' <=> InSample(limit, j)
    BY <2>1 DEF InSample, Earlier, Quota
  <2>4. \A c : Seen(c)' = Seen(c) /\ Count(taken, c)' = Count(taken, c)
    BY <2>1 DEF Seen, Count
  <2>5. QED BY <2>1, <2>2, <2>3, <2>4 DEF SampleSoFar
<1>5. QED BY <1>1, <1>2, <1>3, <1>4 DEF Next

(* When the sampler ends it has taken the sample.  Either the file has ended,  *)
(* or both classes have their share and no later row is among the first ones.  *)
LEMMA SampleComplete ==
  ASSUME TypeOK, SampleSoFar, Sampled
  PROVE  Rows(taken) = Sample(limit)
<1>1. /\ Len(flows) \in Nat /\ DOMAIN flows = 1 .. Len(flows) /\ next \in 1 .. (Len(flows) + 1)
      /\ \A j \in DOMAIN flows : flows[j].label \in Labels
  BY FlowsType DEF TypeOK
<1>2. Rows(taken) = {j \in 1 .. (next - 1) : InSample(limit, j)}
  BY DEF SampleSoFar
<1>3. ASSUME NEW j \in DOMAIN flows, j >= next, InSample(limit, j) PROVE FALSE
  <2>1. limit # NoLimit /\ \A c \in {"normal", "anomalous"} : Count(taken, c) >= Quota(limit)
    BY <1>1, <1>3 DEF Sampled
  <2>2. flows[j].label \in {"normal", "anomalous"} /\ Cardinality(Earlier(j)) < Quota(limit)
    BY <1>1, <1>3, <2>1 DEF InSample, Labels
  <2>3. Seen(flows[j].label) \subseteq Earlier(j) /\ Earlier(j) \in SUBSET (1 .. (j - 1))
    BY <1>1, <1>3 DEF Seen, Earlier
  <2>4. j - 1 \in Nat /\ j \in Nat /\ j > j - 1
    BY <1>1, <1>3
  <2>5. IsFiniteSet(Earlier(j))
    BY <2>3, <2>4, OneMore
  <2>6. /\ Cardinality(Seen(flows[j].label)) \in Nat /\ Cardinality(Earlier(j)) \in Nat
        /\ Cardinality(Seen(flows[j].label)) <= Cardinality(Earlier(j))
    BY <2>3, <2>5, FS_Subset, FS_CardinalityType
  <2>7. Count(taken, flows[j].label) =
          IF Cardinality(Seen(flows[j].label)) < Quota(limit)
          THEN Cardinality(Seen(flows[j].label)) ELSE Quota(limit)
    BY <2>1, <2>2 DEF SampleSoFar
  <2>8. Quota(limit) \in Nat
    BY <2>1, QuotaType DEF TypeOK
  <2>9. QED BY <2>1, <2>2, <2>6, <2>7, <2>8
<1>4. QED BY <1>1, <1>2, <1>3 DEF Sample

(* The balanced sample is the first rows of each class up to its share, for    *)
(* every file and limit, wherever the classes lie: that the sampler stops as   *)
(* soon as both classes are full never cuts one of them short.                 *)
THEOREM BalancedSample == Spec => []SampleIsFirstOfEach
<1>1. Init => TypeOK /\ SampleSoFar
  BY TypeInit, SampleInit
<1>2. TypeOK /\ SampleSoFar /\ [Next]_vars => (TypeOK /\ SampleSoFar)'
  BY TypeStep, SampleStep
<1>3. TypeOK /\ SampleSoFar => SampleIsFirstOfEach
  BY SampleComplete DEF SampleIsFirstOfEach
<1>4. QED BY <1>1, <1>2, <1>3, PTL DEF Spec

------------------------------------------------------------------------------
(* As long as file and detector stay, so do samples and cells.                 *)
LEMMA Rigid ==
  ASSUME flows' = flows, model' = model
  PROVE  /\ \A l : Sample(l)' = Sample(l)
         /\ \A c, S : CellRows(c, S)' = CellRows(c, S)
<1>1. \A l : Sample(l)' = Sample(l)
  BY DEF Sample, InSample, Earlier, Quota
<1>2. \A c, S : CellRows(c, S)' = CellRows(c, S)
  BY DEF CellRows, Covered, IsLabelled, MatrixCell, Anomalous
<1>3. QED BY <1>1, <1>2

(* Counting one more row keeps a tally right.                                  *)
LEMMA CountedTallies ==
  ASSUME NEW n \in Nat, NEW S \in SUBSET (1 .. n), NEW j \in Nat, j > n,
         NEW t \in Tally, Tallies(t, S)
  PROVE  Tallies(Counted(t, flows[j]), S \cup {j})
<1> DEFINE r == flows[j]
           counts(c) == Covered(model, r) /\ IsLabelled(r) /\ MatrixCell(model, r) = c
<1>1. ASSUME NEW c \in Cells
      PROVE  Counted(t, r)[c] = Cardinality(CellRows(c, S \cup {j}))
  <2>1. CellRows(c, S \cup {j}) = IF counts(c) THEN CellRows(c, S) \cup {j} ELSE CellRows(c, S)
    BY DEF CellRows
  <2>2. CellRows(c, S) \in SUBSET (1 .. n)
    BY DEF CellRows
  <2>3. /\ Cardinality(CellRows(c, S)) \in Nat
        /\ Cardinality(CellRows(c, S) \cup {j}) = Cardinality(CellRows(c, S)) + 1
    BY <2>2, OneMore
  <2>4. MatrixCell(model, r) \in Cells
    BY DEF MatrixCell, Cells
  <2>5. Counted(t, r)[c] = IF counts(c) THEN t[c] + 1 ELSE t[c]
    BY <2>4 DEF Counted, IsLabelled, Tally, Cells
  <2>6. t[c] = Cardinality(CellRows(c, S))
    BY DEF Tallies, Cells
  <2>7. QED BY <2>1, <2>3, <2>5, <2>6
<1>2. QED BY <1>1 DEF Tallies, Cells

(* Scoring a list that has each of its rows once, all of them labelled, counts *)
(* each row in its cell.                                                       *)
LEMMA ScoresTally ==
  ASSUME TypeOK, IsInjective(topic), \A j \in Rows(topic) : IsLabelled(flows[j])
  PROVE  Tallies(ScoreLabeledFlows(topic), Rows(topic))
<1>1. ASSUME NEW c \in Cells
      PROVE  ScoreLabeledFlows(topic)[c] = Cardinality(CellRows(c, Rows(topic)))
  <2> DEFINE D == {i \in {i \in DOMAIN topic : Covered(model, flows[topic[i]])} :
                     MatrixCell(model, flows[topic[i]]) = c}
             f == [i \in D |-> topic[i]]
  <2>1. D \subseteq DOMAIN topic /\ IsFiniteSet(D)
    <3>1. Len(topic) \in Nat /\ DOMAIN topic = 1 .. Len(topic)
      BY LenProperties DEF TypeOK
    <3>2. IsFiniteSet(DOMAIN topic)
      BY <3>1, FS_Interval
    <3>3. QED BY <3>2, FS_Subset
  <2>2. f \in Bijection(D, CellRows(c, Rows(topic)))
    <3>1. f \in [D -> CellRows(c, Rows(topic))]
      BY DEF CellRows, Rows
    <3>2. IsInjective(f)
      BY <2>1 DEF IsInjective
    <3>3. \A j \in CellRows(c, Rows(topic)) : \E i \in D : f[i] = j
      BY DEF CellRows, Rows
    <3>4. QED BY <3>1, <3>2, <3>3 DEF Bijection, Injection, Surjection
  <2>3. Cardinality(CellRows(c, Rows(topic))) = Cardinality(D)
    <3>1. ExistsBijection(D, CellRows(c, Rows(topic)))
      BY <2>2 DEF ExistsBijection
    <3> HIDE DEF D, f
    <3>2. QED BY <2>1, <3>1, FS_Bijection
  <2>4. ScoreLabeledFlows(topic)[c] = Cardinality(D)
    <3> DEFINE cells(x) == {i \in {i \in DOMAIN topic : Covered(model, flows[topic[i]])} :
                             MatrixCell(model, flows[topic[i]]) = x}
    <3>1. /\ ScoreLabeledFlows(topic).tp = Cardinality(cells("tp"))
          /\ ScoreLabeledFlows(topic).fp = Cardinality(cells("fp"))
          /\ ScoreLabeledFlows(topic).fn = Cardinality(cells("fn"))
          /\ ScoreLabeledFlows(topic).tn = Cardinality(cells("tn"))
      BY DEF ScoreLabeledFlows
    <3>2. D = cells(c)
      OBVIOUS
    <3> HIDE DEF D, cells
    <3>3. QED BY <3>1, <3>2 DEF Cells
  <2>5. QED BY <2>3, <2>4
<1>2. QED BY <1>1 DEF Tallies, Cells

------------------------------------------------------------------------------
(* What the sampler has taken lies before the row it reads next.               *)
LEMMA TakenBefore ==
  ASSUME TypeOK, SampleSoFar, ReadRow
  PROVE  /\ next \in Nat /\ next - 1 \in Nat /\ next > next - 1 /\ next \in DOMAIN flows
         /\ Rows(taken) \in SUBSET (1 .. (next - 1))
<1>1. next \in Nat \ {0} /\ next \in DOMAIN flows
  BY FlowsType DEF TypeOK, ReadRow, Sampled
<1>2. QED BY <1>1 DEF SampleSoFar

(* A first production begins with an empty topic, and a further one mixes it.  *)
LEMMA TopicBegins ==
  ASSUME TypeOK, TopicIsSample, NEW l \in Limits \cup {NoLimit}, Evaluate(l) \/ ProduceEval(l)
  PROVE  TopicIsSample'
<1>1. command = "idle" /\ topic' = topic /\ flows' = flows /\ model' = model
  BY DEF Evaluate, ProduceEval, Begin, inputs
<1>2. Sample(origin)' = Sample(origin')
  BY <1>1, Rigid DEF Sample, InSample, Earlier, Quota
<1>3. CASE Evaluate(l)
  <2>1. command' = "evaluate" /\ origin' = origin
    BY <1>3 DEF Evaluate, Begin
  <2>2. QED BY <1>1, <1>2, <2>1 DEF TopicIsSample, IsInjective, Rows, IsLabelled
<1>4. CASE ProduceEval(l) /\ origin = NoRun
  <2>1. command' = "produce" /\ origin' = l /\ limit' = l /\ taken' = <<>>
    BY <1>4 DEF ProduceEval, Begin
  <2>2. topic' = <<>> /\ Rows(topic)' = {} /\ Rows(taken)' = {} /\ IsInjective(topic)'
    BY <1>1, <1>4, <2>1 DEF TopicIsSample, Rows, IsInjective
  <2>3. origin' # NoRun
    BY <2>1, EvaluationAssumption
  <2>4. QED BY <2>1, <2>2, <2>3 DEF TopicIsSample
<1>5. CASE ProduceEval(l) /\ origin # NoRun
  <2>1. origin' = Mixed
    BY <1>5 DEF ProduceEval
  <2>2. QED BY <2>1, EvaluationAssumption DEF TopicIsSample
<1>6. QED BY <1>3, <1>4, <1>5

(* Publishing a row that is not in the topic adds it once.                     *)
LEMMA TopicGrows ==
  ASSUME TypeOK, SampleSoFar, TopicIsSample, PublishRow
  PROVE  TopicIsSample'
<1>1. /\ command = "produce" /\ command' = command /\ limit' = limit
      /\ flows' = flows /\ origin' = origin /\ taken' = Append(taken, next)
      /\ topic' = IF IsLabelled(flows[next]) THEN Append(topic, next) ELSE topic
  BY DEF PublishRow, Take, ReadRow, inputs
<1>2. origin # NoRun
  BY <1>1 DEF TopicIsSample
<1>3. CASE origin = Mixed
  BY <1>1, <1>3, EvaluationAssumption DEF TopicIsSample
<1>4. CASE origin # Mixed
  <2>1. /\ IsInjective(topic) /\ limit = origin
        /\ Rows(topic) = {j \in Rows(taken) : IsLabelled(flows[j])}
    BY <1>1, <1>2, <1>4 DEF TopicIsSample
  <2>2. next \in DOMAIN flows /\ next \notin Rows(topic)
    BY <2>1, TakenBefore DEF PublishRow, Take
  <2>3. Rows(taken)' = Rows(taken) \cup {next}
    <3>1. Rows(taken)' = Rows(taken')
      BY DEF Rows
    <3>2. QED BY <1>1, <2>2, <3>1, AppendRows DEF TypeOK
  <2>4. Rows(topic)' = IF IsLabelled(flows[next]) THEN Rows(topic) \cup {next} ELSE Rows(topic)
    <3>1. Rows(topic)' = Rows(topic')
      BY DEF Rows
    <3>2. Rows(Append(topic, next)) = Rows(topic) \cup {next}
      BY <2>2, AppendRows DEF TypeOK
    <3>3. QED BY <1>1, <3>1, <3>2
  <2>5. IsInjective(topic)'
    <3>1. /\ DOMAIN Append(topic, next) = 1 .. (Len(topic) + 1) /\ Len(topic) \in Nat
          /\ DOMAIN topic = 1 .. Len(topic)
          /\ \A i \in 1 .. Len(topic) : Append(topic, next)[i] = topic[i]
          /\ Append(topic, next)[Len(topic) + 1] = next
      BY <2>2, AppendProperties, LenProperties DEF TypeOK
    <3>2. \A i \in DOMAIN topic : topic[i] # next
      BY <2>2 DEF Rows
    <3>3. IsInjective(Append(topic, next))
      BY <2>1, <3>1, <3>2 DEF IsInjective
    <3>4. IsInjective(topic')
      BY <1>1, <2>1, <3>3
    <3>5. QED BY <3>4 DEF IsInjective
  <2>6. Rows(topic)' = {j \in Rows(taken)' : IsLabelled(flows'[j])}
    BY <1>1, <2>1, <2>3, <2>4
  <2>7. QED BY <1>1, <1>2, <2>1, <2>5, <2>6 DEF TopicIsSample, IsLabelled
<1>5. QED BY <1>3, <1>4

(* Every step keeps the topic of one production in line with its sample.       *)
LEMMA TopicStep == TypeOK /\ SampleSoFar /\ TopicIsSample /\ [Next]_vars => TopicIsSample'
<1> SUFFICES ASSUME TypeOK, SampleSoFar, TopicIsSample, [Next]_vars PROVE TopicIsSample'
  OBVIOUS
<1>1. ASSUME NEW l \in Limits \cup {NoLimit}, Evaluate(l) \/ ProduceEval(l) PROVE TopicIsSample'
  BY <1>1, TopicBegins
<1>2. CASE PublishRow
  BY <1>2, TopicGrows
<1>3. CASE PublishLost \/ LateCopy
  <2>1. origin' = Mixed
    BY <1>3 DEF PublishLost, LateCopy
  <2>2. QED BY <2>1, EvaluationAssumption DEF TopicIsSample
<1>4. CASE Finish
  <2>1. /\ command' = "idle" /\ command # "idle"
        /\ UNCHANGED <<flows, limit, taken, topic, origin, model>>
    BY <1>4 DEF Finish, inputs, topicOf
  <2>2. Rows(taken) = Sample(limit)
    BY <1>4, SampleComplete DEF Finish
  <2>3. Sample(origin)' = Sample(origin)
    BY <2>1 DEF Sample, InSample, Earlier, Quota
  <2>4. QED BY <2>1, <2>2, <2>3 DEF TopicIsSample, IsInjective, Rows, IsLabelled
<1>5. CASE Skip \/ ScoreRow \/ EvaluateFromPipe \/ UNCHANGED vars
  <2>1. UNCHANGED <<command, flows, limit, topic, origin>>
    BY <1>5 DEF Skip, ScoreRow, Take, ReadRow, EvaluateFromPipe, vars, inputs, sampling, topicOf
  <2>2. taken' = taken \/ command # "produce"
    BY <1>5 DEF Skip, ScoreRow, EvaluateFromPipe, vars, sampling
  <2>3. Sample(origin)' = Sample(origin)
    BY <2>1 DEF Sample, InSample, Earlier, Quota
  <2>4. QED BY <2>1, <2>2, <2>3 DEF TopicIsSample, IsInjective, Rows, IsLabelled
<1>6. QED BY <1>1, <1>2, <1>3, <1>4, <1>5 DEF Next

(* Every step keeps the tallies: of the sample so far, of the last evaluation  *)
(* on the command line, and of one whole production that was polled.           *)
LEMMA TalliesStep ==
  TypeOK /\ SampleSoFar /\ TopicIsSample /\ TalliesSamples /\ [Next]_vars => TalliesSamples'
<1> SUFFICES ASSUME TypeOK, SampleSoFar, TopicIsSample, TalliesSamples, [Next]_vars
             PROVE  TalliesSamples'
  OBVIOUS
<1>1. flows' = flows /\ model' = model
  BY DEF Next, Evaluate, ProduceEval, Begin, Skip, ScoreRow, PublishRow, PublishLost, LateCopy,
         Take, ReadRow, Finish, EvaluateFromPipe, vars, inputs
<1>2. /\ (Tallies(tally, Rows(taken)))' <=> Tallies(tally', Rows(taken'))
      /\ (Tallies(outcome.tally, Sample(outcome.limit)))'
            <=> Tallies(outcome'.tally, Sample(outcome'.limit))
      /\ (Tallies(polled.tally, Sample(polled.of)))'
            <=> Tallies(polled'.tally, Sample(polled'.of))
  <2>1. \A l : Sample(l)' = Sample(l)
    BY <1>1, Rigid
  <2>2. /\ Sample(outcome.limit)' = Sample(outcome'.limit)
        /\ Sample(polled.of)' = Sample(polled'.of)
    BY <1>1 DEF Sample, InSample, Earlier, Quota
  <2>3. Rows(taken)' = Rows(taken')
    BY DEF Rows
  <2>4. \A c : /\ CellRows(c, Rows(taken))' = CellRows(c, Rows(taken'))
               /\ CellRows(c, Sample(outcome.limit))' = CellRows(c, Sample(outcome'.limit))
               /\ CellRows(c, Sample(polled.of))' = CellRows(c, Sample(polled'.of))
    BY <1>1, <2>2, <2>3 DEF CellRows, Covered, IsLabelled, MatrixCell, Anomalous
  <2>5. QED BY <2>4 DEF Tallies
<1>3. /\ command' = "evaluate" => Tallies(tally', Rows(taken'))
      /\ outcome' # NoRun => Tallies(outcome'.tally, Sample(outcome'.limit))
      /\ polled'.of \notin {NoRun, Mixed} => Tallies(polled'.tally, Sample(polled'.of))
  <2>1. ASSUME NEW l \in Limits \cup {NoLimit}, Evaluate(l) \/ ProduceEval(l)
        PROVE  /\ UNCHANGED <<outcome, polled>>
               /\ Tallies(tally', Rows(taken'))
    <3>1. Rows(taken') = {} /\ tally' = NewTally
      BY <2>1 DEF Evaluate, ProduceEval, Begin, Rows
    <3>2. \A c : CellRows(c, {}) = {}
      BY DEF CellRows
    <3>3. Cardinality({}) = 0
      BY FS_EmptySet
    <3>4. Tallies(NewTally, {})
      BY <3>2, <3>3 DEF Tallies, NewTally
    <3>5. UNCHANGED <<outcome, polled>>
      BY <2>1 DEF Evaluate, ProduceEval, Begin
    <3>6. QED BY <3>1, <3>4, <3>5
  <2>2. CASE ScoreRow
    <3>1. /\ tally' = Counted(tally, flows[next]) /\ taken' = Append(taken, next)
          /\ command = "evaluate" /\ UNCHANGED <<outcome, polled>> /\ ReadRow
      BY <2>2 DEF ScoreRow, Take, ReadRow
    <3>2. Rows(taken') = Rows(taken) \cup {next}
      BY <3>1, TakenBefore, AppendRows DEF TypeOK
    <3>3. Tallies(tally, Rows(taken)) /\ tally \in Tally
      BY <3>1 DEF TalliesSamples, TypeOK
    <3>4. Tallies(Counted(tally, flows[next]), Rows(taken) \cup {next})
      BY <3>1, <3>3, TakenBefore, CountedTallies
    <3>5. QED BY <3>1, <3>2, <3>4 DEF TalliesSamples
  <2>3. CASE Skip \/ LateCopy \/ UNCHANGED vars
    BY <2>3 DEF Skip, LateCopy, ReadRow, vars, sampling, TalliesSamples
  <2>4. CASE PublishRow \/ PublishLost
    BY <2>4 DEF PublishRow, PublishLost, Take, ReadRow, TalliesSamples
  <2>5. CASE Finish
    <3>1. Rows(taken) = Sample(limit)
      BY <2>5, SampleComplete DEF Finish
    <3>2. /\ command' = "idle" /\ polled' = polled
          /\ outcome' = IF command = "evaluate" THEN [limit |-> limit, tally |-> tally]
                                                ELSE outcome
      BY <2>5 DEF Finish
    <3>3. QED BY <3>1, <3>2 DEF TalliesSamples
  <2>6. CASE EvaluateFromPipe
    <3>1. PICK n \in 0 .. Len(topic) :
            polled' = [of    |-> IF n = Len(topic) /\ command # "produce" THEN origin ELSE Mixed,
                       tally |-> ScoreLabeledFlows(SubSeq(topic, FirstPolled, n))]
      BY <2>6 DEF EvaluateFromPipe
    <3>2. UNCHANGED <<command, taken, tally, outcome>>
      BY <2>6 DEF EvaluateFromPipe, sampling
    <3>3. ASSUME polled'.of \notin {NoRun, Mixed}
          PROVE  Tallies(polled'.tally, Sample(polled'.of))
      <4>1. n = Len(topic) /\ command # "produce" /\ polled'.of = origin
        BY <3>1, <3>3
      <4>2. SubSeq(topic, FirstPolled, n) = topic
        BY <4>1, SubSeqFull DEF TypeOK, FirstPolled
      <4>3. IsInjective(topic) /\ Rows(topic) = {j \in Sample(origin) : IsLabelled(flows[j])}
        BY <3>3, <4>1 DEF TopicIsSample
      <4>4. Tallies(ScoreLabeledFlows(topic), Rows(topic))
        BY <4>3, ScoresTally
      <4>5. \A c : CellRows(c, Rows(topic)) = CellRows(c, Sample(origin))
        BY <4>3 DEF CellRows
      <4>6. Tallies(ScoreLabeledFlows(topic), Sample(origin))
        BY <4>4, <4>5 DEF Tallies
      <4>7. QED BY <3>1, <4>1, <4>2, <4>6
    <3>4. QED BY <3>2, <3>3 DEF TalliesSamples
  <2>7. QED BY <2>1, <2>2, <2>3, <2>4, <2>5, <2>6 DEF Next, TalliesSamples
<1>4. QED BY <1>2, <1>3 DEF TalliesSamples

(* One production that was not cut, lossy or repeated, polled to its end, has  *)
(* the confusion matrix the command line has for that limit: for every file,   *)
(* detector and limit, unlabelled rows or not, with commands and polls in any  *)
(* order.  Both count the rows of the one sample.                              *)
THEOREM PipeAgrees == Spec => []PipeAgreesWithCli
<1> DEFINE IInv == TypeOK /\ SampleSoFar /\ TopicIsSample /\ TalliesSamples
<1>1. Init => IInv
  <2> SUFFICES ASSUME Init PROVE TopicIsSample /\ TalliesSamples
    BY TypeInit, SampleInit
  <2>1. TopicIsSample
    BY DEF Init, TopicIsSample
  <2>2. TalliesSamples
    BY DEF Init, TalliesSamples
  <2>3. QED BY <2>1, <2>2
<1>2. IInv /\ [Next]_vars => IInv'
  BY TypeStep, SampleStep, TopicStep, TalliesStep
<1>3. IInv => PipeAgreesWithCli
  <2> SUFFICES ASSUME IInv, outcome # NoRun, polled.of = outcome.limit
               PROVE  \A c \in Cells : polled.tally[c] = outcome.tally[c]
    BY DEF PipeAgreesWithCli, Cells
  <2>1. outcome.limit \in Limits \cup {NoLimit}
    BY DEF TypeOK
  <2>2. polled.of \notin {NoRun, Mixed}
    BY <2>1, EvaluationAssumption
  <2>3. QED BY <2>2 DEF TalliesSamples, Tallies, Cells
<1>4. QED BY <1>1, <1>2, <1>3, PTL DEF Spec

------------------------------------------------------------------------------
(* A body never travels without its length, whatever the row lacks.            *)
LEMMA BodyHasLength ==
  ASSUME NEW head, NEW row, Cell(head, row, "body") # Blank
  PROVE  Reconstruct(head, row).headers["content_length"] # Blank
<1>1. "content_length" \in ToSet(HeaderOrder)
  <2>1. 12 \in DOMAIN HeaderOrder /\ HeaderOrder[12] = "content_length"
    BY DEF HeaderOrder
  <2>2. QED BY <2>1 DEF ToSet
<1>2. Reconstruct(head, row).headers["content_length"] = ContentLength(head, row)
  BY <1>1 DEF Reconstruct, HeaderValue
<1>3. ContentLength(head, row) # Blank
  BY DEF ContentLength, Computed, Blank
<1>4. QED BY <1>2, <1>3

(* An arrangement of n columns has each of them somewhere.                     *)
LEMMA OrderCovers ==
  ASSUME NEW n \in Nat, NEW order \in Orders(n), NEW i \in 1 .. n
  PROVE  \E c \in 1 .. n : order[c] = i
<1>1. order \in Injection(1 .. n, 1 .. n)
  BY DEF Orders, Injection
<1>2. IsFiniteSet(1 .. n)
  BY FS_Interval
<1>3. order \in Surjection(1 .. n, 1 .. n)
  BY <1>1, <1>2, FS_Injection
<1>4. QED BY <1>3 DEF Surjection

(* A field that one column claims at most has the same cell wherever that      *)
(* column stands, and whether or not the row is filled up.                     *)
LEMMA CellMoves ==
  ASSUME NEW head \in Seq(STRING), NEW row \in Seq(CellText), NEW order \in Orders(Len(head)),
         NEW field, Cardinality(Columns(head, field)) <= 1
  PROVE  Cell(head, row, field) =
           Cell([c \in DOMAIN order |-> head[order[c]]],
                [c \in DOMAIN order |-> Padded(row, Len(head))[order[c]]], field)
<1> DEFINE n     == Len(head)
           head2 == [c \in DOMAIN order |-> head[order[c]]]
           row2  == [c \in DOMAIN order |-> Padded(row, n)[order[c]]]
<1>1. /\ n \in Nat /\ DOMAIN head = 1 .. n /\ DOMAIN order = 1 .. n
      /\ Len(row) \in Nat /\ DOMAIN row = 1 .. Len(row)
      /\ \A c \in 1 .. n : order[c] \in 1 .. n
  BY LenProperties DEF Orders
<1>2. Len(row2) = n
  <2>1. row2 \in Seq(Range(row2))
    BY <1>1, IsASeq DEF Range
  <2>2. DOMAIN row2 = 1 .. n
    BY <1>1
  <2>3. QED BY <1>1, <2>1, <2>2, LenProperties
<1>3. Columns(head2, field) = {c \in 1 .. n : order[c] \in Columns(head, field)}
  BY <1>1 DEF Columns
<1>4. CASE Columns(head, field) = {}
  <2>1. Columns(head2, field) = {}
    BY <1>3, <1>4
  <2>2. QED BY <1>4, <2>1 DEF Cell
<1>5. CASE Columns(head, field) # {}
  <2>1. PICK i \in 1 .. n : Columns(head, field) = {i}
    <3>1. IsFiniteSet(1 .. n) /\ Columns(head, field) \subseteq 1 .. n
      BY <1>1, FS_Interval DEF Columns
    <3>2. IsFiniteSet(Columns(head, field))
      BY <3>1, FS_Subset
    <3>3. PICK i \in Columns(head, field) : TRUE
      BY <1>5
    <3>4. Cardinality({i}) = 1 /\ {i} \subseteq Columns(head, field)
      BY <3>3, FS_Singleton
    <3>5. /\ Cardinality(Columns(head, field)) \in Nat
          /\ Cardinality({i}) <= Cardinality(Columns(head, field))
          /\ Cardinality({i}) = Cardinality(Columns(head, field)) => {i} = Columns(head, field)
      BY <3>2, <3>4, FS_Subset, FS_CardinalityType
    <3>6. {i} = Columns(head, field)
      BY <3>4, <3>5
    <3>7. QED BY <3>1, <3>6
  <2>2. PICK c \in 1 .. n : order[c] = i
    <3>1. n \in Nat /\ order \in Orders(n)
      BY <1>1
    <3> HIDE DEF n
    <3>2. QED BY <3>1, OrderCovers
  <2>3. \A d \in 1 .. n : order[d] = i => d = c
    BY <1>1, <2>2 DEF Orders, IsInjective
  <2>4. Columns(head2, field) = {c}
    <3>1. \A d \in 1 .. n : order[d] \in Columns(head, field) <=> d = c
      BY <2>1, <2>2, <2>3
    <3>2. QED BY <1>3, <2>2, <3>1
  <2>5. Column(head, field) = i /\ Column(head2, field) = c
    BY <1>1, <2>1, <2>4 DEF Column
  <2>6. row2[c] = Padded(row, n)[i]
    BY <1>1, <2>2
  <2>7. Padded(row, n)[i] = IF i > Len(row) THEN Blank ELSE row[i]
    BY <1>1, <2>1 DEF Padded
  <2>8. Cell(head, row, field) = IF i > Len(row) THEN Blank ELSE row[i]
    BY <2>1, <2>5 DEF Cell
  <2>9. Cell(head2, row2, field) = row2[c]
    <3>1. ~ (c > n)
      BY <1>1, <2>2
    <3> HIDE DEF head2, row2, n
    <3>2. QED BY <1>2, <2>4, <2>5, <3>1 DEF Cell
  <2>10. QED BY <2>6, <2>7, <2>8, <2>9
<1>6. QED BY <1>4, <1>5

(* A packet depends on the cells of its fields only.                           *)
LEMMA PacketOfCells ==
  ASSUME NEW head, NEW row, NEW head2, NEW row2,
         \A field \in Fields : Cell(head, row, field) = Cell(head2, row2, field)
  PROVE  Reconstruct(head, row) = Reconstruct(head2, row2)
<1>1. ToSet(HeaderOrder) \subseteq Fields /\ {"method", "url", "body", "label"} \subseteq Fields
  BY DEF Fields
<1>2. "content_length" \in Fields
  <2>1. 12 \in DOMAIN HeaderOrder /\ HeaderOrder[12] = "content_length"
    BY DEF HeaderOrder
  <2>2. QED BY <1>1, <2>1 DEF ToSet
<1>3. Method(head, row) = Method(head2, row2)
  BY <1>1 DEF Method
<1>4. ContentLength(head, row) = ContentLength(head2, row2)
  BY <1>1, <1>2 DEF ContentLength
<1>5. \A field \in ToSet(HeaderOrder) :
        HeaderValue(head, row, field) = HeaderValue(head2, row2, field)
  BY <1>1, <1>4 DEF HeaderValue
<1>6. QED BY <1>1, <1>3, <1>5 DEF Reconstruct

(* Columns are found by name: for every file none of whose columns claim the   *)
(* same field, any arrangement of them gives the same packets; and for every   *)
(* file a body has its length with it.                                         *)
THEOREM OnePacketPerRow == Spec => []RowMeansOnePacket
<1>1. TypeOK => RowMeansOnePacket
  <2> SUFFICES ASSUME TypeOK, NEW j \in DOMAIN file.rows
               PROVE  /\ Reconstruct(file.header, file.rows[j]).body # Blank =>
                           Reconstruct(file.header, file.rows[j]).headers["content_length"] # Blank
                      /\ Unambiguous(file.header) =>
                           \A order \in Orders(Len(file.header)) :
                             Reconstruct(file.header, file.rows[j]) =
                               Reconstruct([c \in DOMAIN order |-> file.header[order[c]]],
                                           [c \in DOMAIN order |->
                                              Padded(file.rows[j], Len(file.header))[order[c]]])
    BY DEF RowMeansOnePacket
  <2>1. file.header \in Seq(STRING) /\ file.rows[j] \in Seq(CellText)
    BY EvaluationAssumption, ElementOfSeq DEF TypeOK
  <2>2. Reconstruct(file.header, file.rows[j]).body = Cell(file.header, file.rows[j], "body")
    BY DEF Reconstruct
  <2>3. ASSUME Unambiguous(file.header), NEW order \in Orders(Len(file.header)),
               NEW field \in Fields
        PROVE  Cell(file.header, file.rows[j], field) =
                 Cell([c \in DOMAIN order |-> file.header[order[c]]],
                      [c \in DOMAIN order |->
                         Padded(file.rows[j], Len(file.header))[order[c]]], field)
    BY <2>1, <2>3, CellMoves DEF Unambiguous
  <2>4. QED BY <2>2, <2>3, BodyHasLength, PacketOfCells
<1>2. QED BY <1>1, TypeCorrect, PTL
==============================================================================
