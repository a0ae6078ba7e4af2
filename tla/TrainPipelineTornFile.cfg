SPECIFICATION Spec
CONSTANTS
  t1 = t1
  t2 = t2
  k1 = k1
  k2 = k2
  Keys = {k1, k2}
  NoFile = NoFile
  Torn = Torn
  File <- MCFile
  MinTrain = 2
  Trainers <- OneTrainer
  Ratios <- Half
  Limits <- Whole
  MaxProductions = 1
  MaxTrainings = 2
  MaxSendFailures = 0
  MaxTimeouts = 0
  MaxCrashes = 1
CHECK_DEADLOCK FALSE
INVARIANTS SavedStaysLoadable
