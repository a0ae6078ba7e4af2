SPECIFICATION Spec
CONSTANTS
  k1 = k1
  k2 = k2
  NoModel = NoModel
  Keys <- MCKeys
  Models <- MCModels
  Requests <- MCRequests
  Policy = "ANY"
  Detectors <- RulesetThenHmm
  MaxRequests = 3
  MaxRuns = 2
  MaxPolls = 1
CHECK_DEADLOCK FALSE
INVARIANT RunAnswersPile
PROPERTIES ServiceSafety
