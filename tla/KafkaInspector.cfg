SPECIFICATION FairSpec
CONSTANTS
  p1 = p1
  p2 = p2
  k1 = k1
  k2 = k2
  NoModel = NoModel
  NoOwner = NoOwner
  Keys <- MCKeys
  Inspectors = {p1, p2}
  Detectors <- RulesetThenHmm
  Policy = "ANY"
  Requests <- MixedRequests
  Models <- UntrainedOrStrict
  MaxRequests = 2
  MaxVerdicts = 4
  MaxSendFailures = 1
  MaxDisruptions = 2
  MaxRetrains = 1
CHECK_DEADLOCK FALSE
INVARIANTS TypeOK CommittedHandled HandledInOrder DuplicatesBounded ContradictionNeedsRetrain
PROPERTIES CommitNeverRegresses ServiceSafety EveryRequestHandled
