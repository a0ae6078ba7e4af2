SPECIFICATION Spec
CONSTANTS
  k1 = k1
  k2 = k2
  Keys <- MCKeys
  Comparisons <- FewFlows
  Top = 3
CHECK_DEADLOCK FALSE
INVARIANT TprOfLargestFpr
