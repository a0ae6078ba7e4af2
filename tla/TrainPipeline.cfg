SPECIFICATION Spec
CONSTANTS
  t1 = t1
  t2 = t2
  k1 = k1
  k2 = k2
  Keys = {k1, k2}
  NoFile = NoFile
  Torn = Torn
  File <- MCFile
  MinTrain = 2
  Trainers <- TwoTrainers
  Ratios <- Half
  Limits <- CutOrWhole
  MaxProductions = 2
  MaxTrainings = 2
  MaxSendFailures = 1
  MaxTimeouts = 1
  MaxCrashes = 1
CHECK_DEADLOCK FALSE
SYMMETRY Symmetry
INVARIANTS TypeOK HeldOutUnseen TornOnlyWhileWriting MoreDataCoversMore
