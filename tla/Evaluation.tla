----------------------------- MODULE Evaluation ------------------------------
(* Scoring a trained detector on labelled traffic, in the two ways the command  *)
(* lines offer: calibrate_cli evaluate reads a balanced sample of a CSV file    *)
(* and scores each record as it comes; kafka_pipeline produce-eval publishes    *)
(* such a sample to the evaluation topic, kafka_pipeline evaluate polls it.     *)
(* A file is a header line and rows of cells, which CsicPackets turns into      *)
(* labelled packets; the detector sees of a packet the partition and the score  *)
(* of its bytes.  Bounds: MaxCommands, MaxPolls, MaxSendFailures.               *)
EXTENDS BlockDecision, CsicPackets

CONSTANTS KeyOf(_), ScoreOf(_),  \* of the bytes of a packet
          Files, Models, Limits, NoLimit, NoRun, Mixed, MaxCommands, MaxPolls, MaxSendFailures

LabeledFlow(header, line) ==
  LET packet == Reconstruct(header, line)
  IN  [label |-> Class(packet), key |-> KeyOf(packet), score |-> ScoreOf(packet)]

ASSUME EvaluationAssumption ==
  /\ \A f \in Files :
       /\ f.header \in Seq(STRING) /\ f.rows \in Seq(Seq(CellText))
       /\ \A j \in DOMAIN f.rows :
            LET flow == LabeledFlow(f.header, f.rows[j])
            IN  flow.key \in Keys /\ flow.score \in Nat
  /\ Models \subseteq Model
  /\ Limits \subseteq Nat /\ NoLimit \notin Nat
  /\ {NoRun, Mixed} \cap (Limits \cup {NoLimit}) = {} /\ NoRun # Mixed

VARIABLES
  file, model,  \* the CSV file and the detector in the model file
  flows,        \* what the rows of the file become
  command,      \* "idle", or a command under way: "evaluate", "produce"
  limit, next,  \* its --limit, and the row its sampler reads next
  taken,        \* the rows the sampler has yielded
  tally,        \* what evaluate has counted so far
  topic,        \* the evaluation topic: rows, in arrival order
  origin,       \* the limit of the one production the topic holds, if it is one (history)
  outcome,      \* the limit and tally of the last evaluate that ended (history)
  polled,       \* the origin and the tally of the last pipe evaluation
  spent         \* how much of each bound is used up

inputs   == <<file, model, flows>>
sampling == <<command, limit, next, taken, tally>>
topicOf  == <<topic, origin>>
vars     == <<inputs, sampling, topicOf, outcome, polled, spent>>

NewTally == [tp |-> 0, fp |-> 0, fn |-> 0, tn |-> 0, covered |-> 0, uncovered |-> 0]

Init ==
  /\ file \in Files /\ model \in Models
  /\ flows = [j \in DOMAIN file.rows |-> LabeledFlow(file.header, file.rows[j])]
  /\ command = "idle" /\ limit = NoLimit /\ next = 1 /\ taken = <<>> /\ tally = NewTally
  /\ topic = <<>> /\ origin = NoRun /\ outcome = NoRun
  /\ polled = [of |-> NoRun, tally |-> NewTally]
  /\ spent = [commands |-> 0, polls |-> 0, failures |-> 0]

------------------------------------------------------------------------------
(* The sampler, iter_balanced_packets: without a limit every row, with one half *)
(* of the limit of each class, at least one.                                    *)
Quota(l) == IF l < 2 THEN 1 ELSE l \div 2

Count(rows, label) == Cardinality({i \in DOMAIN rows : flows[rows[i]].label = label})

Yields(j) ==
  \/ limit = NoLimit
  \/ limit # NoLimit /\ flows[j].label # "other" /\ Count(taken, flows[j].label) < Quota(limit)

(* Mutant: stops as soon as one of the classes has its share.                   *)
MutSampled ==
  \/ next > Len(flows)
  \/ limit # NoLimit /\ \E c \in {"normal", "anomalous"} : Count(taken, c) >= Quota(limit)

(* The file has ended, or both classes have their share.                        *)
Sampled ==
  \/ next > Len(flows)
  \/ limit # NoLimit /\ \A c \in {"normal", "anomalous"} : Count(taken, c) >= Quota(limit)

------------------------------------------------------------------------------
(* The cell of the confusion matrix a flow falls in; attack is the positive.    *)
MatrixCell(m, r) ==
  IF r.label = "anomalous" THEN IF Anomalous(m, r) THEN "tp" ELSE "fn"
                           ELSE IF Anomalous(m, r) THEN "fp" ELSE "tn"

(* evaluate_model: a covered row that has neither label is covered, no more.    *)
Counted(t, r) ==
  IF ~Covered(model, r) THEN [t EXCEPT !.uncovered = @ + 1]
  ELSE IF r.label = "other" THEN [t EXCEPT !.covered = @ + 1]
  ELSE [t EXCEPT !.covered = @ + 1, ![MatrixCell(model, r)] = @ + 1]

(* score_labeled_flows: what is not an attack is normal.                        *)
ScoreLabeledFlows(batch) ==
  LET covered == {i \in DOMAIN batch : Covered(model, flows[batch[i]])}
      cells(c) == Cardinality({i \in covered : MatrixCell(model, flows[batch[i]]) = c})
  IN  [tp |-> cells("tp"), fp |-> cells("fp"), fn |-> cells("fn"), tn |-> cells("tn"),
       covered |-> Cardinality(covered), uncovered |-> Cardinality(DOMAIN batch \ covered)]

------------------------------------------------------------------------------
Begin(name, l) ==
  /\ command = "idle" /\ spent.commands < MaxCommands
  /\ command' = name /\ limit' = l /\ next' = 1 /\ taken' = <<>> /\ tally' = NewTally
  /\ spent' = [spent EXCEPT !.commands = @ + 1]
  /\ UNCHANGED <<inputs, outcome, polled, topic>>

Evaluate(l) == Begin("evaluate", l) /\ UNCHANGED origin

(* The topic is appended to: a second production is a mixture.                  *)
ProduceEval(l) ==
  Begin("produce", l) /\ origin' = IF origin = NoRun THEN l ELSE Mixed

(* The sampler reads a row; when it yields it, the command gets it at once.     *)
ReadRow ==
  /\ command # "idle" /\ ~Sampled
  /\ next' = next + 1
  /\ UNCHANGED <<command, limit, inputs, outcome, polled>>

Skip == /\ ReadRow /\ ~Yields(next)
        /\ UNCHANGED <<taken, tally, topicOf, spent>>

Take == ReadRow /\ Yields(next) /\ taken' = Append(taken, next)

ScoreRow == /\ Take /\ command = "evaluate"
            /\ tally' = Counted(tally, flows[next])
            /\ UNCHANGED <<topicOf, spent>>

(* Mutant: every row of the sample is published.                                *)
MutIsLabelled(r) == TRUE

IsLabelled(r) == r.label # "other"

PublishRow == /\ Take /\ command = "produce"
              /\ topic' = IF IsLabelled(flows[next]) THEN Append(topic, next) ELSE topic
              /\ UNCHANGED <<tally, origin, spent>>

(* As everywhere, a send that fails is not noticed,                             *)
PublishLost == /\ Take /\ command = "produce" /\ IsLabelled(flows[next])
               /\ spent.failures < MaxSendFailures
               /\ origin' = Mixed
               /\ spent' = [spent EXCEPT !.failures = @ + 1]
               /\ UNCHANGED <<tally, topic>>

(* and of one that was repeated the broker may write the first copy later on.   *)
LateCopy == /\ spent.failures < MaxSendFailures
            /\ \E i \in DOMAIN topic : topic' = Append(topic, topic[i])
            /\ origin' = Mixed
            /\ spent' = [spent EXCEPT !.failures = @ + 1]
            /\ UNCHANGED <<inputs, sampling, outcome, polled>>

Finish == /\ command # "idle" /\ Sampled
          /\ command' = "idle"
          /\ outcome' = IF command = "evaluate" THEN [limit |-> limit, tally |-> tally]
                                                ELSE outcome
          /\ UNCHANGED <<inputs, limit, next, taken, tally, topicOf, polled, spent>>

(* What evaluate reads of the topic: from its first message, wherever the last  *)
(* evaluation got to, up to the end or to a pause of the broker.                *)
FirstPolled == 1

(* kafka_pipeline evaluate, a process of its own: poll, then score the list.    *)
EvaluateFromPipe ==
  /\ spent.polls < MaxPolls
  /\ \E n \in 0 .. Len(topic) :
       polled' = [of    |-> IF n = Len(topic) /\ command # "produce" THEN origin ELSE Mixed,
                  tally |-> ScoreLabeledFlows(SubSeq(topic, FirstPolled, n))]
  /\ spent' = [spent EXCEPT !.polls = @ + 1]
  /\ UNCHANGED <<inputs, sampling, topicOf, outcome>>

Next ==
  \/ \E l \in Limits \cup {NoLimit} : Evaluate(l) \/ ProduceEval(l)
  \/ Skip \/ ScoreRow \/ PublishRow \/ PublishLost \/ LateCopy \/ Finish
  \/ EvaluateFromPipe

Spec == Init /\ [][Next]_vars

------------------------------------------------------------------------------
Tally == [tp : Nat, fp : Nat, fn : Nat, tn : Nat, covered : Nat, uncovered : Nat]

TypeOK ==
  /\ file \in Files /\ model \in Models
  /\ flows = [j \in DOMAIN file.rows |-> LabeledFlow(file.header, file.rows[j])]
  /\ command \in {"idle", "evaluate", "produce"}
  /\ limit \in Limits \cup {NoLimit} /\ next \in 1 .. (Len(flows) + 1)
  /\ taken \in Seq(DOMAIN flows) /\ tally \in Tally
  /\ topic \in Seq(DOMAIN flows) /\ origin \in Limits \cup {NoLimit, NoRun, Mixed}
  /\ outcome \in {NoRun} \cup [limit : Limits \cup {NoLimit}, tally : Tally]
  /\ polled \in [of : Limits \cup {NoLimit, NoRun, Mixed}, tally : Tally]
  /\ spent \in [commands : Nat, polls : Nat, failures : Nat]

Earlier(j) == {i \in 1 .. (j - 1) : flows[i].label = flows[j].label}

InSample(l, j) ==
  l = NoLimit \/ (flows[j].label # "other" /\ Cardinality(Earlier(j)) < Quota(l))

Sample(l) == {j \in DOMAIN flows : InSample(l, j)}

Rows(s) == {s[i] : i \in DOMAIN s}

(* csic_to_packets.py:183: with a limit, the sample is the first quota rows of  *)
(* each class, however the classes lie in the file: stopping early never cuts   *)
(* one of them short.  Without a limit it is the whole file.                    *)
SampleIsFirstOfEach ==
  (command # "idle" /\ Sampled) => Rows(taken) = Sample(limit)

(* streaming/evaluation.py:38: the pipe means the same as the command line.     *)
(* One production that was not cut, lossy or repeated, polled to its end, gives *)
(* the confusion matrix evaluate gives with that limit, unlabelled rows or not. *)
PipeAgreesWithCli ==
  (outcome # NoRun /\ polled.of = outcome.limit) =>
    \A c \in {"tp", "fp", "fn", "tn"} : polled.tally[c] = outcome.tally[c]

(* What the two properties above rest on.  Of each class the sampler has taken  *)
(* what the file had to offer so far, up to the share of the class; so what it  *)
(* has taken is what it has passed of the sample.                               *)
Seen(c) == {j \in 1 .. (next - 1) : flows[j].label = c}

SampleSoFar ==
  /\ Rows(taken) = {j \in 1 .. (next - 1) : InSample(limit, j)}
  /\ limit # NoLimit => \A c \in {"normal", "anomalous"} :
       Count(taken, c) = IF Cardinality(Seen(c)) < Quota(limit) THEN Cardinality(Seen(c))
                                                                ELSE Quota(limit)

(* A tally counts each row of a set in its cell.                                *)
CellRows(c, S) == {j \in S : /\ Covered(model, flows[j]) /\ IsLabelled(flows[j])
                             /\ MatrixCell(model, flows[j]) = c}

Tallies(t, S) == \A c \in {"tp", "fp", "fn", "tn"} : t[c] = Cardinality(CellRows(c, S))

(* A topic that holds one production has each labelled row of its sample once.  *)
TopicIsSample ==
  /\ origin = NoRun => topic = <<>> /\ command # "produce"
  /\ origin \notin {NoRun, Mixed} =>
       /\ IsInjective(topic)
       /\ command = "produce" => limit = origin
       /\ Rows(topic) = {j \in IF command = "produce" THEN Rows(taken) ELSE Sample(origin) :
                            IsLabelled(flows[j])}

TalliesSamples ==
  /\ command = "evaluate" => Tallies(tally, Rows(taken))
  /\ outcome # NoRun => Tallies(outcome.tally, Sample(outcome.limit))
  /\ polled.of \notin {NoRun, Mixed} => Tallies(polled.tally, Sample(polled.of))

(* csic_to_packets.py:7: columns are mapped by name, so their order does not    *)
(* matter: a file whose columns are arranged in another way, and whose short    *)
(* rows are filled up, gives the same packets; unless two columns claim one     *)
(* field, where the first of them wins.  And whatever a row lacks, a body never *)
(* travels without its length.  Since this is a matter of the file alone, it is *)
(* looked at before the first command.                                          *)
RowMeansOnePacket ==
  spent.commands = 0 =>
    \A j \in DOMAIN file.rows :
      LET packet == Reconstruct(file.header, file.rows[j])
          line   == Padded(file.rows[j], Len(file.header))
      IN  /\ packet.body # Blank => packet.headers["content_length"] # Blank
          /\ Unambiguous(file.header) =>
               \A order \in Orders(Len(file.header)) :
                 packet = Reconstruct([c \in DOMAIN order |-> file.header[order[c]]],
                                      [c \in DOMAIN order |-> line[order[c]]])
==============================================================================
