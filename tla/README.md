# A TLA+ model of LF-WAAP

LF-WAAP is a web application firewall in Python: a rule set and a one-class hidden Markov model look at
every HTTP request, a policy combines what they say, and a pipe of Kafka topics feeds training,
evaluation and inspection. This directory holds TLA+ modules for it, TLC configurations that check them
on small instances, and proofs of the main results for every size of the system. Paths below are relative
to `src/` unless they say otherwise; `K/` is `src/waf/infrastructure/streaming/`, `H/` is
`src/waf/infrastructure/hmm/`.

Check a module with `tlc -config <name>.cfg MC<Module>`, a proof with `tlapm <Module>Proofs.tla`.
`PROJECT.json` lists every run, the source lines of every definition, and one mutant for every property:
a changed definition under which the property fails.

## 1. The system and its parts

| Part | State it keeps | Operations | Talks to |
|---|---|---|---|
| Decision (`domain/service`, `domain/model`) | policy, detectors | `decide` | asks every detector, in order |
| Rule set (`infrastructure/ruleset`) | rules in file order | `inspect` | - |
| HMM detector (`H/hmm_detector`, `H/partitioned_hmm`, `H/ensemble_hmm`) | a model per partition, recorded counts | `train`, `assess`, `inspect` | features, one-class models |
| One-class model (`H/normal_hmm`) | fitted HMM, threshold | `fit`, `calibrate`, `score`, `is_anomaly` | hmmlearn, numpy |
| Features, partitions (`H/features`, `H/partition`, `domain/model/flow`) | none | `extract`, `partition_key` | - |
| Metrics (`H/evaluation`) | none | `tpr_at_fpr`, `partial_auc`, ... | scikit-learn |
| Evaluation (`H/benchmark`, `K/evaluation`, `learning_data/calibrate_cli`) | tallies | `evaluate`, `produce-eval`, `compare` | CSV file, topic, model file |
| Channel (`K/kafka_channel`, `K/memory`, `K/codecs`) | topics, group offsets | `publish`, `poll`, `stream` | broker |
| Streaming inspector (`K/inference`) | position in the stream | `run` | channel, decision |
| Training (`learning_data/kafka_pipeline`, `application/calibrate_model`, `K/traffic_source`) | polled batches | `produce-train`, `train` | CSV source, channel, repository |
| Repository (`adapter/persistence`) | one pickle file | `save`, `load` | file system |
| CSIC data (`learning_data/csic_*`) | none | row selection, split, balanced sample | CSV file |
| Demo, packaging | none | prints | - |

Commands are processes of their own. They share three things: the topics, which only grow; the offsets of
one consumer group; and the model file. What is hard follows from that: inspectors of a group crash, are
evicted and go on working; commits happen in the background; sends fail unnoticed or arrive twice; a poll has no memory
and may end early; the model file is replaced while others read it. Inside one process what is hard is
arithmetic at boundaries (quantiles, window slices, mixed radices, curve points), training that stops
half-way, and files whose columns come in any order. What makes each part correct:

- Decision: the policy's meaning, reasons that name real objections, fail-open detectors, isolation of partitions.
- Inspector: at least one verdict per committed request, in order; progress; no contradiction without a new model.
- Training: held-out flows are not fitted; the model file holds a whole detector; more data never covers less.
- The two together: an inspector that starts during a save does what it would do over a file that is always
  whole, or tries again; a restart drops no protection.
- Channel in memory: the same service as over Kafka, a run at a time.
- HMM training: whatever state it leaves can be asked and is of one training.
- Calibration: the promised share of false alarms; monotone in the target.
- Scoring and features: all windows at once equal one by one; encodings stay in the alphabet and merge nothing
  they should tell apart; no symbol is impossible to a fitted model; an ensemble agrees with its members where it must.
- Evaluation: the sample is complete, the two commands agree; metrics are those of a threshold one can set;
  variants are compared on the same flows, and all of them are ranked.
- CSIC packets: a request does not depend on the order of the columns it was read from.

## 2. Modules

`InspectionService` is an abstract specification that two modules implement: `KafkaInspector` and
`MemoryChannel` (property `ServiceSafety` of each). `WafSystem` composes `TrainPipeline` and `KafkaInspector`
and implements the latter over the real model file (`WireSpec`). `BlockDecision` is extended by everything
that decides or scores requests, `CsicSource` by `TrainPipeline`, `CsicPackets` by `Evaluation`,
`Calibration` by `HmmTraining` and `EnsembleScore`, `Features` by `FlowScore`, `RocMetrics` by `Benchmark`.
`HmmDetector` extends `HmmTraining` and has an instance each of `FlowScore`, `OneClassScore` and `EnsembleScore`.

**BlockDecision, DecisionService** (`domain/service/block_decision_service.py`, `ruleset_detector.py`,
`hmm_detector.py`, `partitioned_hmm.py`). A request is what detectors can tell of it: the rules it
matches, its partition, its score as a rank, whether its text has a UTF-8 form. A model maps partitions
to thresholds or to `NoModel`. `Decide` is `decide()`: all detectors are asked, then ANY or ALL.
`DecisionService` lets a deployment change (another tuple, policy, model, request) and states how verdicts
before and after relate.

**InspectionService.** Requests are settled in the order they were asked; settling publishes the verdict
of some model or loses it; a settled request may be answered again.

**KafkaInspector** (`K/inference.py`, `K/kafka_channel.py` 32-36 and 56-68, `kafka_pipeline.py` 199-207,
kafka-python and the group coordinator as that code uses them). Per process: `pc` (`down`, `polling`
inside `next()`, `holding` a record), the position, the last record already fetched and the model read at
start. `Fetch` is the generator's `yield`, `Answer` the loop body with a publish that arrives, `AnswerLost`
one with a publish that does not, `Resend` a send that was not acknowledged in time and is written again,
`Arrive` an earlier copy of it that the broker writes after all, now or when its sender has long gone, `Raise` a
decision that raises, `AutoCommit` the client's
background commit, which can only happen inside `next()` and is refused for a member of an older
generation. `Evict` takes the partition from a live process, `Crash` kills it.
That sends are repeated is knowledge of kafka-python, which is not part of this repository: `K/kafka_channel.py:32`
sets neither `retries` nor `enable_idempotence`, and the releases from 2.1 on that `pyproject.toml:21` allows then
retry without limit and without idempotence. With 2.0, which does not retry by itself, `Resend` does not occur: that is
the case of no repeated sends.

**CsicSource, TrainPipeline** (`csic_traffic_source.py`, `kafka_pipeline.py` 69-86 and 109-122,
`K/traffic_source.py`, `calibrate_model.py`, `pickle_model_repository.py`). The producer publishes row by
row, first the rows to fit, then, reading the file again, the rows to hold out. A trainer polls the one
topic, then the other, trains, truncates the file, fills it. Producers and trainers overlap, fail, die; `LateCopy`
is the second arrival of a row whose send was repeated, here and in `Evaluation`.

**WafSystem** (`kafka_pipeline.py` 199-207, `pickle_model_repository.py`). The two halves meet in the
model file. `KafkaInspector` alone reads from a store that is always whole; here `Start` unpickles what
`file` holds at that moment, which a trainer may have just truncated, and a file that is missing or torn
lets the process end before it subscribes. `loaded` is what each inspector read, `store` the last detector
written to the end. `Wire` is `KafkaInspector` with these for its store and for what its processes hold,
and `WireSpec`, its whole specification, is checked as a property.

**MemoryChannel** (`K/memory.py`, `K/inference.py` 30-42). One process: `Run` starts the loop over a copy of
the topic, `Answer` and `Raise` are the loop's body, `Poll` hands a copy of the verdicts to a caller,
`Consume` is that caller taking messages out of its list.

**Calibration** (`normal_hmm.py` 170-191): numpy's linear quantile and the decision. Scores are
integers, targets and thresholds fractions, so everything is exact.

**HmmTraining** (`partitioned_hmm.py` 109-132, `ensemble_hmm.py`, `normal_hmm.py` 170-184). The inside of
`train()`: the step that `TrainPipeline` takes at once is a loop over partitions in order of arrival, each
with several fits that may raise and a calibration; the detector lives on and is trained again.

**OneClassScore** (`normal_hmm.py` 49-147). `fit` in its steps: the windows of the sequences, a sample of
them, Baum-Welch, smoothing; then `score` of any sequence. Baum-Welch may end in every pair of matrices over a
denominator in which no state emits a symbol the windows lack, and whose rows add up to one, or to zero where there was
nothing to count: hmmlearn leaves a row of zeros in the transitions of a state that no window leaves (all of them,
if every window has one symbol), and in both matrices of a state that no window visits. Smoothing fills the emissions but
not the transitions, so a model may have dead ends (`DeadEnds`). A sequence longer than a window is scored all the
same, a whole one is refused by hmmlearn, whose `score` checks the rows first (`Answerable`). A score is the
logarithm of a mean of probabilities divided by a norm; the module keeps sum, number and norm, which are natural
numbers, and a sum of zero stands for minus infinity.

**EnsembleScore** (`ensemble_hmm.py`): members score a flow, the scores are fused by mean, minimum or
maximum, and one threshold is calibrated on fused scores. Scores count in parts of the number of members.

**Features** (`features.py`, `partition.py`, `flow.py`): the four extractors and the bucket of a flow, as
operators.

**FlowScore** (`flow.py`, `normal_hmm.py` 126-168): a flow that grows and is scored in between, through one
of the extractors and the forward pass over all windows at once, one symbol per step, with natural
numbers for probabilities.

**HmmDetector** (`hmm_detector.py`, `partitioned_hmm.py`): `HmmTraining`, `FlowScore`, `OneClassScore` and
`EnsembleScore` side by side, as the parts of one detector, each with constants of its own; a behaviour exercises one
of them and the others keep still, and each property says which part it is about.

**RocMetrics** (`evaluation.py` 77-123): `tpr_at_fpr` and `partial_auc` over the curve `roc_curve`
returns, including the collinear points it leaves out. Rates are compared without dividing.

**Benchmark** (`benchmark.py` 39-151, `calibrate_cli.py` 159-181, `model_variant.py`): variants are built,
trained and scored flow by flow, one variant after the other on the same three lists, any of them may
raise, and the results are sorted into a table. A variant is what it asks of a partition and its target;
the score it gives a flow is any rank, and the report is computed from those by `RocMetrics`.

**CsicPackets** (`csic_to_packets.py` 28-177): columns are found by name in the header line, each row becomes
a request of its parts and has a class. A cell is the name its text begins with and what follows, since that
is what the stripping of names and blanks tells apart.

**Evaluation** (`csic_to_packets.py` 180-202, `calibrate_cli.py` 106-156, `benchmark.py` 39-81,
`K/evaluation.py`, `kafka_pipeline.py` 89-103 and 125-133): the balanced sampler and the two commands, on
files whose rows go through `CsicPackets`; partition and score are functions of the packet.

**\*Proofs**: section 5. **MC\***: the values of the constants for TLC.

## 3. What the runs show

Runs that pass:

| Run | Distinct states | Shows |
|---|---|---|
| `inspector` | 1.3 million | Two inspectors, a poison request, a lost send, two disruptions that are crashes, evictions or repeated sends, late copies, a retraining: a committed request was decided and its verdict sent (`CommittedHandled`), nothing is overtaken (`HandledInOrder`), offsets never go back, every step is one of the abstract service. Without a poison request there is at most one repeat per crash, eviction or repeated send (`DuplicatesBounded`); two different verdicts on a request need a retraining and a second delivery, which a repeated send is not (`ContradictionNeedsRetrain`). Under fairness every request before the first poison request is answered (`EveryRequestHandled`). |
| `pipeline` | 3.9 million | Producers that are repeated, cut short, lossy or killed, whose rows may arrive twice, beside two trainers whose polls may end early: no flow is fitted and held out (`HeldOutUnseen`); the file is torn only while somebody writes or after a crash; of any two detectors the one that recorded more flows covers more (`MoreDataCoversMore`). |
| `waf_system` | 285,000 | Two inspectors start from the file one trainer truncates and fills: they do what `KafkaInspector` does over whole detectors (`WireSpec`), and with one trainer at a time whose polls are complete, what an inspector reads at a restart covers at least what it covered before (`ReloadKeepsCoverage`). Under fairness a file under replacement becomes loadable again unless a command was killed (`TornHeals`); once it stays loadable every request that can be reached is decided and sent (`InspectsOnceLoadable`). |
| `memory_channel` | 17,000 | A run answers in order exactly what had piled up when it was called, or stops at a request that raises (`RunAnswersPile`); a caller that consumes its polled list takes nothing from the channel, and every step is one of the abstract service (`ServiceSafety`). |
| `decision_service` | 4,500 | `AbstentionVetoesAll`: under ALL, an HMM without a model for the partition disables all rules. `DetectorsMoveOneWay`: one more detector can only add blocks under ANY and only remove them under ALL. `PartitionsIsolated`: training other partitions changes no verdict. |
| `hmm_detector` | 113,000 | Training: after any sequence of trainings and exceptions a covered partition can be asked, all models are of the last training, coverage is a beginning of what should be covered; each threshold rejects fewer than the target's share of n - 1 validation flows plus one, and grows with the target. Features: symbols lie below the advertised size; tokens determine classes; packets share a symbol only if all four parts agree. Scoring: the vectorised forward pass equals the sum over all state paths of each window; the weights of all single symbols add up to one, those of all pairs too unless the model has a dead end, and of the sequences of one length all are possible or none, whatever symbols the training or the sample lacked (`Distribution`); a fused score lies between those of its windows, so that an anomaly has an anomalous window (`AnomalyHasWindow`). Fusion: an ensemble by minimum blocks only what some member alone would, one by maximum blocks what all alone would, and members that agree decide as one (`EnsembleFollowsMembers`). |
| `benchmark` | 330,000 | Of two variants the one that asks for less scores no fewer flows, whichever came first (`SameFlowsScored`); a table lists every variant, best area first and none without metrics before one with an area of zero (`RankingIsWhole`); the operating point is realised by its threshold; the partial area ignores dropped points, is at most 1 and is 1 for a perfect separation. |
| `evaluation` | 6.4 million | The balanced sample is the first rows of each class wherever they lie; one whole production without a lost or repeated send, polled whole, gives the confusion matrix of the command line, with unlabelled rows in the file too; the packet is the same for every order of the columns, and a body has its length with it (`RowMeansOnePacket`). |

Runs whose violation TLC must find, each a disagreement between the code and its own documents:

| Run | The document says | The code does |
|---|---|---|
| `inspector_lost_verdict` | `K/channel.py:17` publish publishes a message | A failed send is not noticed; the request is committed and has no verdict. |
| `inspector_poison` | `K/inference.py:33` keeps consuming new requests | A request with a lone surrogate stops every inspector at that offset. |
| `pipeline_torn_file` | `pickle_model_repository.py:3` a whole detector | Truncate, then write: a crash in between leaves none. |
| `roc_metrics_dropped` | `H/evaluation.py:91` at the largest FPR within the target | `roc_curve` has left out collinear points; a better threshold within the target exists. |

These four properties are not invariants of a passing run because they are false of the code; a repair would
turn each of these runs into a passing one.

Known limits that the models contain and no run is spent on, because they take no search to see:

- `CalibrateModel` saves a detector that covers nothing over a good one (`calibrate_model.py:32`), where
  `HmmDetector.save` refuses an untrained one (`hmm_detector.py:110`). In `TrainPipeline`, `WriteFile` has
  no guard.
- A second `produce-train` with another ratio publishes for fitting what the first held out
  (`kafka_pipeline.py:77`); `HeldOutUnseen` fails as soon as `Ratios` has two members, which is why the run
  and the theorem fix one.
- `train_count` is documented as the flows fitted on (`partitioned_hmm.py:97`) and counts those of skipped
  partitions too (`H/benchmark.py:95` says the same of a result). As a record of what was given it is what
  `MoreDataCoversMore` relies on.
- `evaluate_model` counts a row of neither class as covered and in no cell of the matrix
  (`calibrate_cli.py:131`); `Counted` has it so, and `PipeAgreesWithCli` compares the four cells only.
- `poll` is documented to empty the topic (`K/kafka_channel.py:8`) and removes nothing, so every
  evaluation scores all earlier messages again; `PipeAgreesWithCli` is about topics with one production. A send that
  arrived twice is tallied twice, too (`LateCopy` in `Evaluation`).
- A model fitted on windows that never leave some state has a row of zeros there: longer sequences score minus
  infinity, or `score` raises (`H/normal_hmm.py:143`), and nothing looks for it after `fit` (`H/normal_hmm.py:117`).
- A send that is not acknowledged in time may arrive twice (`K/kafka_channel.py:32`), so that a verdict topic
  can have more verdicts than requests without a crash.
- `InMemoryChannel.stream` starts at the first message each time although `K/memory.py:4` promises the
  contract of `KafkaChannel`, which resumes at the committed offset: a second run answers every request again
  (`Pile` in `MemoryChannel`).
- A sequence shorter than the window is divided by the window (`H/normal_hmm.py:146`), although scores are
  documented as comparable across lengths (`H/normal_hmm.py:9`). `Norm` in `OneClassScore`; `AnomalyHasWindow`
  is about longer ones.
- A method cell of nothing but blanks leaves the request without a method, where an empty one becomes GET
  (`csic_to_packets.py:135`): `Method` in `CsicPackets`.
- Of two columns that claim one field the first wins (`csic_to_packets.py:129`), so that such a file does depend
  on the order of its columns; `RowMeansOnePacket` leaves it out.
- A variant whose training raises ends `compare` and the results before it are lost (`benchmark.py:138`): `Raise`
  in `Benchmark`.

## 4. Bounds and fairness

Every bound is a constant named in the comment at the head of its module.

- *KafkaInspector*: two processes are a zombie and its successor; two requests are one handled and one held,
  or one handled and one that raises; two disruptions (`MaxDisruptions` counts crashes, evictions and repeated sends
  together) let a repeat be repeated and each kind meet each other, one lost send and one retraining each meet every
  state of the other process. Without poison requests the log of four verdicts holds the three that one request may get
  at most and the first of the other, or one more than a request may have; it ends `Answer` and `Arrive`, never a
  decision about an offset. A poison request makes inspectors restart and repeat without end, so that there it cuts.
- *TrainPipeline*: five rows are an attack, one partition above the minimum and one below; two productions
  with a limit that cuts inside a stride; two trainers that write at once; one row that is lost or arrives twice.
- *WafSystem*: one trainer twice, so that an inspector may start before, between, during and after saves; two
  inspectors, one command killed, one inspector killed, evicted or repeating a send, one request. No flow is lost or
  repeated here: a producer killed half-way leaves short topics too, and `pipeline` has lost and repeated flows. Each of two partitions has a flow to fit on and one to calibrate on, and
  the two trainings may set different thresholds.
- *MemoryChannel*: three requests of three kinds, two runs, one poll, two models.
- *HmmTraining*: three partitions, up to four flows, two trainings, ensembles of two, one exception; every
  sorted sample of up to four scores out of four, ties included; the theorem covers the rest.
- *OneClassScore*: two states, three symbols, probabilities in halves; windows of none and two against
  sequences of up to three symbols, shorter than, as long as and longer than a window; samples of two
  windows that may miss a symbol; windows of one symbol, after which every state is a dead end.
- *EnsembleScore*: two members with scores in three ranks, every batch of up to two flows and those of three
  up to their order, three targets.
- *DecisionService*: every tuple of up to three detectors, thresholds above, at and below each score.
- *FlowScore*: windows of three in sequences of up to five symbols, zero probabilities included; payloads of
  one byte of each of the eight classes, longer ones of three of them; packet lengths and gaps on both
  sides of an edge and enough packets to cross a bucket's; known and unknown flags.
- *Benchmark*: up to three variants with minima of one to three flows over two partitions, evaluation sets
  that cover both classes, one of them or one partition only; and one variant with up to four flows of each
  class in four ranks and five targets: enough for collinear points with the target between them.
- *Evaluation*: all files of up to four rows of five kinds, limits 1 (below two) and 4, two commands, one poll
  and one message lost or repeated; and files of one row of up to three of six kinds of cell, under two header lines, one of
  which has two columns for the body.

Symmetry is used for the trainers of `pipeline`, which has no liveness property, and nowhere else.

Fairness: `FairSpec` of `KafkaInspector` has weak fairness of each process's own steps: the operating
system schedules processes, a supervisor starts them again, the coordinator assigns a free partition and
the broker answers polls. Nothing else is fair: no request need arrive, no send need succeed or fail, no
client need commit, no late copy need arrive, no member need leave. `EveryRequestHandled` is about requests with no poison request at or
before them, because of others it is false; that is the run `inspector_poison`.
`FairSpec` of `WafSystem` adds weak fairness of a train command once it was started; no train or produce
command need be started. Weak fairness of an inspector's start is enough although a start is only possible
while the file is loadable: trainings are bounded by `MaxTrainings`, so a file is not torn again and again for
ever. `InspectsOnceLoadable` has the premise that the file stays loadable in the end, without which an inspector
has nothing to start from; a trainer that is killed while it writes is the case in which it does not.
`CHECK_DEADLOCK FALSE` stands where bounds or finished work end all steps.

## 5. What is proved

Each theorem holds for every value of the constants that satisfies the module's named assumptions.

- `KafkaInspectorProofs`. `TypeCorrect`, `AtLeastOnce` (`CommittedHandled`), `InOrder`
  (`HandledInOrder`), `CommitMonotone`, and `Implementation`: `Spec => ServiceSafety`. None of these is
  inductive: that a committed offset is handled depends on what the committing process has done.
  `IInv` therefore adds `PositionHandled` (what a process has read past is handled, whether it owns the
  partition or not), `OwnerAhead` (the owner never stands before the committed offset, so its commits never
  go back), `HandledAsked` and `CopiesDue` (a copy that may still arrive is some model's verdict on a
  request whose turn had come). The step lemma has one case per action; sending (`Answer`, `AnswerLost`)
  is one lemma, since both only enlarge what is handled. Refinement maps `settled` to what was
  answered or lost; `Answer` and `Arrive` are `Settle` or `Repeat`, as the offset is new or not.
  `DuplicatesAreBounded` needs to count answers that are still to come: `AnswersBudgeted` says that the answers
  given to a request, the copies of a send that are under way (`Copies`) and the processes that may still answer it
  (`Pending`, the free partition among them) are together at most one more than the disruptions and the repeated
  sends. `ContradictionNeedsTwoModels` rests on `OneModelUntilRetrain` (everyone decides with the model in the
  repository until another is saved) and on `OneVoice` (in one delivery, without a crash or an eviction, all that
  was sent for a request, arrived or not, says the same).
- `MemoryChannelProofs`. `TypeCorrect`, `PileAnswered` (`RunAnswersPile`) and `Implementation`
  (`ServiceSafety`). What a run has left to do has to be the end of the topic it copied (`BacklogIsRest`), although
  the topic grows and callers empty their lists during the run.
- `TrainPipelineProofs`. `PipelineTypes`. `NoLeak`: with one ratio `HeldOutUnseen` always holds, for every
  file, limit, number of trainers and sequence of losses, late copies, early polls and crashes. The invariant
  `SidesKept` says on which side of the one split the rows of every topic, batch and detector lie;
  a late copy adds a row that its topic already has (`CopiedRow`), and disjointness follows from the stride. It needs the assumption that `Ratios` has one member.
  `TornFile`. `CoverageMonotone`: any two detectors, of whatever trainers and in memory or in the file,
  were made of beginnings of the same two topics (`PolledFromStart`); a longer beginning has no fewer flows
  of any partition, so it covers no less.
- `WafSystemProofs`. `FileIsAStore`: `Spec => WireSpec`, every step of the inspectors beside trainers that truncate
  and fill the file is a step of `KafkaInspector`. The store of the refinement changes as often as a trainer
  finishes, so its changes have to be bounded as `KafkaInspector` bounds them (`TrainingsPaid`), and a file that can be
  loaded has to hold the store (`StoreIsSaved`). `RestartsKeepCoverage` (`ReloadKeepsCoverage`) is under two
  hypotheses that the run has too, one trainer at a time and no poll that ends early: with two trainers, or a
  short poll, an older or smaller model really may come last. The topics then only grow between two
  saves (`TopicsBounded`, `TrainsOnMore`). `EndToEnd` carries `ServiceSafety`, `CommittedHandled` and
  `DuplicatesBounded` over the refinement: the theorems about `KafkaInspector` hold of inspectors over the real file.
- `HmmDetectorProofs`. `QuantileBound`: for every sorted sample of n scores and every target the quantile
  rejects fewer than (n - 1) * target + 1 of them. The lemma `QuantileRejects` is the argument: what lies
  strictly below the interpolated score lies at positions up to the quantile's. `QuantileMonotone`: a larger
  target interpolates at the same position or a later one. `SingleTraining` and `AlwaysAskable`: whatever the
  batches, ensemble size and exceptions, covered partitions have fully fitted models of the last training.
  `TrainingTypes`, `PrefixCovered`, `FalsePositiveBound` and `TargetMonotone` (`LargerTargetBlocksMore`) rest on
  `TrainingInv`: what the loop is done with is covered if it qualifies, and each threshold is the quantile of
  its own partition's scores. `TrainingIsAPart`: they hold of a detector with its other parts too.
  `SymbolsBelowAlphabet` (`SymbolsInAlphabet`, for every flow and every width of a token) needs the tokens as numbers in
  base 8: `TokenDigits` gives their digits one by one, `TokenBelow` their bound. The forward pass reads inside the
  sequence because it is only begun on one longer than a window (`FlowInv`). `SymbolsTell` (`SymbolsTellApart`): a digit is
  what division leaves (`DigitOfToken`), and a packet's symbol has four digits, each below its radix (`SymbolDigits`).
  `EnsembleFollows` (`EnsembleFollowsMembers`): the k-th smallest of scores that are at most, or at least, so many times
  others is so too (`KthMonotone`), and the quantile mixes two of them with weights that do not depend on the scores
  (`QuantileGrows`). The threshold in force is the one of the flows calibrated on (`EnsembleInv`).
  `AnomaliesHaveWindows` (`AnomalyHasWindow`): a sum lies between so many times its smallest and its largest summand
  (`TotalBounds`), provided the weights are numbers, which they are for every matrix a fit may end in (`WeightType`); and a
  score is by the model in place, because a model is never replaced (`OneClassInv`). Sums and recursive functions are
  handled as in `BenchmarkProofs` below: `Recursion` proves once that a function defined step by step exists.
  `AllWindowsAtOnce` (`AlphaIsPathSum`): a sum may be taken in any order and class by class (`TotalTake`,
  `TotalByClass`, `TotalSwap`), so the sum over paths is one over shorter paths of one over the next state
  (`NextSum`), which is what a step of the forward pass adds up (`AlphaInv`, `AlphaStep`). `WholeAtAnyLength` regroups the
  sequences of a length by their beginnings in the same way (`MassGrows`). It needs the start to add up to one
  share, the emissions of a state to one unit, the transitions of a state to one share or to nothing, and beyond
  length one that no state does the latter (`DeadEnds`): a state from which no transition was observed goes nowhere, and
  the longer sequences then weigh less than the whole. `DistributionInv` says that a fit and the smoothing after it
  leave such rows and no zero emission (`SmoothedRow`). Sequences of one length are then all possible or all
  impossible, dead ends or not (`PossibleAlike`, `WeightPositive`, `ScorePositive`). Both make `SmoothedWhole`
  (`Distribution`).
- `DecisionServiceProofs`. `FailOpenVeto`, `IsolatedPartitions` and `OneWay`: the three properties of the
  decision that are checked, and `DecisionTypes` and `WitnessedReason` (the reason of a block is that of a detector
  that blocked), for every set of requests, models and deployments.
- `EvaluationProofs`. `TypeCorrect`. `BalancedSample` (`SampleIsFirstOfEach`): while a command reads, what it took is
  what the sample has of the rows read so far (`SampleSoFar`), and it may stop when both classes are full because
  no later row can belong to the sample. `PipeAgrees` (`PipeAgreesWithCli`): a complete production left the sample in
  the topic in some order (`TopicIsSample`), and both tallies count the rows of the sample cell by cell
  (`TalliesSamples`). `OnePacketPerRow` (`RowMeansOnePacket`): a field that one column claims is read from the
  column the order has moved it to (`CellMoves`).
- `BenchmarkProofs`. `TypeCorrect`. `FairComparison` (`SameFlowsScored`): the counts of a result are those of the flows
  whose partition the variant's own minimum covers (`CountedSoFar`, `CountedInResults`), whichever scores they were
  given; a smaller minimum covers more. `OperatingPoint` (`ThresholdIsRealised`) and `WholeRanking` (`RankingIsWhole`):
  the curve is a list of thresholds in ascending order that ends where everything is flagged, and leaving points out
  keeps it one (`OnCurve`), so there is a last point within the target and one after it, denominators are positive,
  and fractions without division order the results totally. `NormalisedArea` (`AucIsNormalisedArea`): trapezoids under
  points on a line add up to one (`Straight`), a point is left out only if the steps to its neighbours are equal
  (`KeptThins`, `EqualSteps`), so both curves have the same area up to common points (`ThinArea`) and the same share
  of it up to a cut between them (`ThinCut`). Over all points the area is at most its rectangle (`CutBounded`),
  and a curve of separated classes climbs before it goes right (`SeparatedIsEarly`). Sums and sorting are folds, recursive functions for
  the prover: `SumsExist` proves that the recursive function exists, and what it adds up to follows by induction over
  the subsets of a finite set, stated for a set of sets (`SubsetInduction`) and a set of numbers (`NatSetInduction`)
  instead of a predicate; `Enumeration` lists a finite set in any strict total order.

Only model-checked: liveness (`EveryRequestHandled`, `InspectsOnceLoadable`, `TornHeals`), which the prover cannot do.

## 6. What is not modelled

- Regular expressions of the rules, and the text of requests: a request matches a set of rules.
- What Baum-Welch converges to, random restarts and floating point: hmmlearn's and numpy's. A fitted model is
  any pair of matrices whose rows add up to one, those of the transitions and emissions also to zero; a score is
  a rank or an exact fraction.
- What follows a score of a model with dead ends: hmmlearn gives minus infinity or raises, depending on its
  version. A threshold calibrated on such scores is not modelled, nor is a request that raises for this reason:
  to the inspector it is one more poison request, and `KafkaInspector` names only those that cannot be encoded.
- In the topics of the two offline commands, a copy of a row that arrives after its send was given up:
  there a late copy is one of a row that has arrived. `KafkaInspector` has both.
- The bytes of the parts of a CSIC packet, the splitting of its URL and the port of its host.
- ROC-AUC, PR-AUC, accuracy and the other single formulas.
- Several partitions of a Kafka topic, replication, several producers: the code creates and assumes one of each.
- `HmmDetector.save` and `load`, which no command uses and whose files the repository cannot read.
- Printing, argument parsing, the demo, configuration files.

## 7. Plan

Done: every part of the table in section 1 except the demo, with the inspector composed with the training that
feeds it; proofs for the inspector over a store and over the real model file, the channel in memory, the
pipeline, the training and its thresholds, symbols, windows and ensembles, the decision, the evaluation commands
and the comparison of variants.

Every invariant and action property that the passing runs check is proved. What is left to add is
within reach of a model but small: the per-class score statistics of the evaluation, and what survives the codecs of the
two topics, field by field.
