SPECIFICATION FairSpec
CONSTANTS
  p1 = p1
  p2 = p2
  k1 = k1
  k2 = k2
  NoModel = NoModel
  NoOwner = NoOwner
  Keys <- MCKeys
  Inspectors = {p1, p2}
  Detectors <- RulesetThenHmm
  Policy = "ANY"
  Requests <- MixedRequests
  Models <- OneModel
  MaxRequests = 2
  MaxVerdicts = 3
  MaxSendFailures = 0
  MaxDisruptions = 0
  MaxRetrains = 0
CHECK_DEADLOCK FALSE
PROPERTIES DecidableRequestServed
