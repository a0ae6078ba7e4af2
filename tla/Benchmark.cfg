SPECIFICATION Spec
CONSTANTS
  k1 = k1
  k2 = k2
  Keys <- MCKeys
  Comparisons <- MCComparisons
  Top = 4
CHECK_DEADLOCK FALSE
INVARIANTS SameFlowsScored RankingIsWhole ThresholdIsRealised AucIsNormalisedArea
