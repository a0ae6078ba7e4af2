SPECIFICATION DetectorSpec
CONSTANTS
  k1 = k1
  k2 = k2
  k3 = k3
  q1 = q1
  q2 = q2
  m1 = m1
  m2 = m2
  NotCalibrated = NotCalibrated
  Traffic <- MCTraffic
  States <- MCStates
  Start <- MCStart
  Trans <- MCTrans
  Emit <- MCEmit
  Window = 3
  HiddenStates <- MCHiddenStates
  NSymbols = 3
  Share = 2
  Smoothing = 2
  Windows = {0, 2}
  MaxFitWindows = 2
  Trainings <- MCTrainings
  Asked <- MCAsked
  Members <- MCMembers
  Combinations <- MCCombinations
  Goals <- MCGoals
  Validations <- MCValidations
  Questions <- MCQuestions
  Keys <- MCKeys
  Samples <- MCSamples
  Batches <- MCBatches
  Targets <- MCTargets
  MinTrain = 2
  Ensemble = 2
  MaxTrainings = 2
  MaxFailures = 1
  Bytes <- MCBytes
  Lengths <- MCLengths
  Gaps <- MCGaps
  Flags <- MCFlags
  TokenWindow = 2
CHECK_DEADLOCK FALSE
INVARIANTS TypeOK AssessNeverRaises OneTraining CoverageIsPrefix RejectsAtMostTarget LargerTargetBlocksMore
INVARIANTS SymbolsInAlphabet SymbolsTellApart AlphaIsPathSum
INVARIANTS Distribution AnomalyHasWindow EnsembleFollowsMembers
