CONSTANTS
  Tree <- MCGapTree
  RawMatrices <- MCRawMatrices
  MaxN = 3
  Width = 16
SPECIFICATION Spec
INVARIANT NoAbort
CHECK_DEADLOCK FALSE
