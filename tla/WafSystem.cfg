SPECIFICATION FairSpec
CONSTANTS
  t1 = t1
  p1 = p1
  p2 = p2
  k1 = k1
  k2 = k2
  NoFile = NoFile
  Torn = Torn
  NoModel = NoModel
  NoOwner = NoOwner
  Keys = {k1, k2}
  File <- MCFile
  Ratios <- Half
  Limits <- Whole
  MinTrain = 1
  Trainers = {t1}
  MaxProductions = 1
  MaxTrainings = 2
  MaxLostFlows = 0
  MaxTimeouts = 0
  MaxCrashes = 1
  Inspectors = {p1, p2}
  Requests <- MixedRequests
  Policy = "ANY"
  Detectors <- RulesetThenHmm
  MaxRequests = 1
  MaxVerdicts = 2
  MaxLostVerdicts = 0
  MaxDisruptions = 1
  Thresholds = {1, 2}
  Threshold <- MCThreshold
CHECK_DEADLOCK FALSE
PROPERTIES WireSpec ReloadKeepsCoverage InspectsOnceLoadable TornHeals
